---- MODULE Spec2Model ----
(***************************************************************************)
(* Versade: the version-outdatedness comparator of DependencyChecker and   *)
(* the package lookups built on it.                                        *)
(*                                                                         *)
(* A Python str is modelled as a sequence of one-character strings, so     *)
(* that splitting, digit extraction, integer parsing and string ordering   *)
(* are computed character by character, as the code computes them.         *)
(***************************************************************************)
EXTENDS Integers, Sequences, FiniteSets, TLC

VARIABLES
    current,    \* _compare_versions: the argument current
    latest,     \* _compare_versions: the argument latest
    tupA,       \* the integer tuple current was formatted from (<<>>: none)
    tupB,       \* the integer tuple latest was formatted from (<<>>: none)
    ret,        \* the outcome of the call: not yet made, a return, a raise
    req,        \* a lookup request: package_name and version
    raw,        \* what the registry answers to the lookup's request
    out,        \* the outcome of the lookup: not yet made, a return, a raise
    file,       \* a dependency file on disk, as a batch operation reads it
    registry,   \* what the registries answer for each package of a batch
    job,        \* the outcome of the batch operation
    request,    \* the JSON body of a call_tool request
    response,   \* what the request is answered with
    queries,    \* history.db: the rows of the table queries
    responses,  \* history.db: the rows of the table responses
    sequence,   \* history.db: the last AUTOINCREMENT id of each table
    clock,      \* the time of the history store's CURRENT_TIMESTAMP
    saved,      \* the arguments of each call of save_query, by returned id
    entry,      \* the outcome of the last call of HistoryService
    jobs,       \* app.py: the job table, by job id
    tasks,      \* app.py: the background task of each job and its position
    polled,     \* what the last GET /queue/{job_id} was answered with
    stream,     \* app.py: the /analyze request and the generator's position
    events,     \* the events the SSE stream has emitted
    chain,      \* _compare_versions: three versions to compare two by two
    verdict     \* the outcomes of these comparisons

cmpVars == <<current, latest, tupA, tupB, ret>>

lookupVars == <<req, raw, out>>

batchVars == <<file, registry, job>>

rpcVars == <<request, response>>

histVars == <<queries, responses, sequence, clock, saved, entry>>

queueVars == <<jobs, tasks, polled>>

streamVars == <<stream, events>>

orderVars == <<chain, verdict>>

\* The checker's parts: comparator, lookups, batch operations, call_tool
coreVars == <<cmpVars, lookupVars, batchVars, rpcVars>>

\* The parts of the history store and of the HTTP application
laterVars == <<histVars, queueVars, streamVars, orderVars>>

vars == <<current, latest, tupA, tupB, ret, req, raw, out, file, registry, job, request, response, queries, responses, sequence, clock, saved, entry, jobs, tasks, polled, stream, events, chain, verdict>>

(***************************************************************************)
(* Bounds of the model.                                                    *)
(***************************************************************************)
\* longest raw version string drawn
MaxLen == 3
\* largest sum of the lengths of the two raw strings of one call
MaxTotal == 5
\* most segments of a numeric dotted version
MaxSegs == 3

(***************************************************************************)
(* Python str primitives.                                                  *)
(***************************************************************************)
\* The characters raw version strings are drawn from: digits, both
\* separators, letters and the line feed (which '.' and '$' treat apart).
Chars == {"0", "1", ".", "-", "a", "b", "\n"}

DigitChars == {"0", "1", "2", "3", "4", "5", "6", "7", "8", "9"}

\* int() of one decimal digit
DigitVal(c) ==
    CASE c = "0" -> 0 [] c = "1" -> 1 [] c = "2" -> 2 [] c = "3" -> 3
      [] c = "4" -> 4 [] c = "5" -> 5 [] c = "6" -> 6 [] c = "7" -> 7
      [] c = "8" -> 8 [] c = "9" -> 9

\* ord(c): the code point Python orders strings by
Code(c) ==
    CASE c = "\n" -> 10 [] c = " " -> 32 [] c = "-" -> 45 [] c = "." -> 46
      [] c = "T" -> 84
      [] c \in DigitChars -> 48 + DigitVal(c)
      [] c = "a" -> 97 [] c = "b" -> 98

\* StrLess with the prefix rule lost: a proper prefix no longer sorts first
RECURSIVE StrLess_noprefix(_, _)
StrLess_noprefix(s, t) ==
    IF s = <<>> \/ t = <<>> THEN FALSE
    ELSE IF s[1] = t[1] THEN StrLess_noprefix(Tail(s), Tail(t))
    ELSE Code(s[1]) < Code(t[1])

\* s < t on str: the first differing character decides by code point, and a
\* proper prefix sorts first.
RECURSIVE StrLess(_, _)
StrLess(s, t) ==
    IF s = <<>> THEN t # <<>>
    ELSE IF t = <<>> THEN FALSE
    ELSE IF s[1] = t[1] THEN StrLess(Tail(s), Tail(t))
    ELSE Code(s[1]) < Code(t[1])

\* int(part): the value of a non-empty string of decimal digits; anything
\* else raises ValueError (ok = FALSE).
RECURSIVE DecimalValue(_)
DecimalValue(s) ==
    IF s = <<>> THEN 0
    ELSE 10 * DecimalValue(SubSeq(s, 1, Len(s) - 1)) + DigitVal(s[Len(s)])

IntOf(part) ==
    IF part # <<>> /\ \A i \in 1..Len(part) : part[i] \in DigitChars
    THEN [ok |-> TRUE, val |-> DecimalValue(part)]
    ELSE [ok |-> FALSE, val |-> 0]

\* re.findall(r'\d+', s): the maximal runs of digits of s, left to right
\* (scanned from position i with the run in progress and the runs found)
RECURSIVE ScanDigits(_, _, _, _)
ScanDigits(s, i, run, found) ==
    IF i > Len(s) THEN (IF run = <<>> THEN found ELSE Append(found, run))
    ELSE IF s[i] \in DigitChars THEN ScanDigits(s, i + 1, Append(run, s[i]), found)
    ELSE ScanDigits(s, i + 1, <<>>, IF run = <<>> THEN found ELSE Append(found, run))

FindAllDigits(s) == ScanDigits(s, 1, <<>>, <<>>)

\* s.split(sep): the pieces of s between the occurrences of the character sep
RECURSIVE SplitOn(_, _)
SplitOn(s, sep) ==
    IF \A i \in 1..Len(s) : s[i] # sep THEN <<s>>
    ELSE LET k == CHOOSE i \in 1..Len(s) :
                    s[i] = sep /\ \A j \in 1..(i - 1) : s[j] # sep
         IN  <<SubSeq(s, 1, k - 1)>> \o SplitOn(SubSeq(s, k + 1, Len(s)), sep)

(***************************************************************************)
(* DependencyChecker._split_version                                        *)
(***************************************************************************)
\* The characters of [0-9.]
ReleaseChars == DigitChars \cup {"."}

\* The length of the longest run of [0-9.] that starts at position i
RECURSIVE RunFrom(_, _)
RunFrom(s, i) ==
    IF i <= Len(s) /\ s[i] \in ReleaseChars THEN 1 + RunFrom(s, i + 1) ELSE 0

\* The length of the longest leading run of [0-9.]
RunLen(s) == RunFrom(s, 1)

\* _split_version with a pattern that knows the hyphen only,
\* r'^([0-9.]+)-(.+)$': a suffix that follows a dot or a digit is not split off
_split_version_dash(version) ==
    LET n == RunLen(version)
        rest == SubSeq(version, n + 1, Len(version))
        pre == IF rest = <<>> THEN <<>> ELSE Tail(rest)
        m == Len(pre)
        matches == /\ n > 0 /\ rest # <<>> /\ rest[1] = "-" /\ m > 0
                   /\ pre[1] # "\n"
                   /\ \A i \in 1..m : pre[i] = "\n" => i = m
    IN  IF matches
        THEN <<SubSeq(version, 1, n),
               IF pre[m] = "\n" THEN SubSeq(pre, 1, m - 1) ELSE pre>>
        ELSE <<version, <<>>>>

\* re.match(r'^([0-9.]+)[-.]?(.+)?$', version): group 1 is the leading run,
\* then one optional separator, then group 2 is the rest. '.' matches no
\* line feed and '$' matches at the end or before a final line feed, so the
\* match fails when the run is empty or a line feed stands anywhere but last;
\* a final line feed is dropped from group 2. No match: (version, "").
_split_version(version) ==
    LET n == RunLen(version)
        rest == SubSeq(version, n + 1, Len(version))
        afterSep == IF rest # <<>> /\ rest[1] \in {"-", "."} THEN Tail(rest) ELSE rest
        m == Len(afterSep)
        matches == n > 0 /\ \A i \in 1..m : afterSep[i] = "\n" => i = m
        prerelease == IF m > 0 /\ afterSep[m] = "\n"
                      THEN SubSeq(afterSep, 1, m - 1) ELSE afterSep
    IN  IF matches THEN <<SubSeq(version, 1, n), prerelease>>
        ELSE <<version, <<>>>>

(***************************************************************************)
(* DependencyChecker._compare_release_versions                             *)
(***************************************************************************)
\* ReleaseParts by [int(part) for part in release.split('.')]: a piece that
\* is empty or holds a non-digit makes int() raise
ReleaseParts_split(release) ==
    LET pieces == SplitOn(release, ".")
    IN  [i \in 1..Len(pieces) |-> IntOf(pieces[i])]

\* [int(part) for part in re.findall(r'\d+', release)]
ReleaseParts(release) ==
    LET found == FindAllDigits(release)
    IN  [i \in 1..Len(found) |-> IntOf(found[i])]

\* PadTo with the padding loops left out
PadTo_none(parts, n) == parts

\* while len(parts) < n: parts.append(0)
PadTo(parts, n) ==
    [i \in 1..(IF Len(parts) < n THEN n ELSE Len(parts)) |->
        IF i <= Len(parts) THEN parts[i] ELSE 0]

\* for c, l in zip(...): the first unequal pair decides; 0 when none differs
RECURSIVE CompareParts(_, _)
CompareParts(cs, ls) ==
    IF cs = <<>> \/ ls = <<>> THEN 0
    ELSE IF cs[1] < ls[1] THEN -1
    ELSE IF cs[1] > ls[1] THEN 1
    ELSE CompareParts(Tail(cs), Tail(ls))

\* _compare_release_versions by the lists' own order (current_parts <
\* latest_parts) instead of padding: a shorter list that is a prefix is older
_compare_release_versions_listorder(cur, lat) ==
    LET cp == ReleaseParts(cur)
        lp == ReleaseParts(lat)
        cv == [i \in 1..Len(cp) |-> cp[i].val]
        lv == [i \in 1..Len(lp) |-> lp[i].val]
        c == CompareParts(cv, lv)
    IN  [exc |-> "",
         val |-> IF c # 0 THEN c
                 ELSE IF Len(cv) < Len(lv) THEN -1
                 ELSE IF Len(cv) > Len(lv) THEN 1 ELSE 0]

\* Returns [exc, val]: val is -1 (outdated), 0 (equal) or 1 (newer) when
\* exc = "", and exc names the exception when int() raised.
_compare_release_versions(cur, lat) ==
    LET cp == ReleaseParts(cur)
        lp == ReleaseParts(lat)
        raised == \/ \E i \in 1..Len(cp) : ~cp[i].ok
                  \/ \E i \in 1..Len(lp) : ~lp[i].ok
        cv == [i \in 1..Len(cp) |-> cp[i].val]
        lv == [i \in 1..Len(lp) |-> lp[i].val]
    IN  IF raised THEN [exc |-> "ValueError", val |-> 0]
        ELSE [exc |-> "",
              val |-> CompareParts(PadTo(cv, Len(lv)), PadTo(lv, Len(cv)))]

(***************************************************************************)
(* DependencyChecker._compare_versions                                     *)
(***************************************************************************)
Return(b) == [kind |-> "return", val |-> b, exc |-> ""]
Raise(e) == [kind |-> "raise", val |-> FALSE, exc |-> e]
NotCalled == [kind |-> "none", val |-> FALSE, exc |-> ""]

\* _compare_versions whose equality short-circuit answers True
_compare_versions_equal_true(cur, lat) ==
    IF cur = lat THEN Return(TRUE)
    ELSE
      LET c == _split_version(cur)
          l == _split_version(lat)
          release_comparison == _compare_release_versions(c[1], l[1])
      IN  IF release_comparison.exc # "" THEN Raise(release_comparison.exc)
          ELSE IF release_comparison.val = 0 THEN
                 IF c[2] # <<>> /\ l[2] = <<>> THEN Return(TRUE)
                 ELSE IF c[2] = <<>> /\ l[2] # <<>> THEN Return(FALSE)
                 ELSE IF c[2] # <<>> /\ l[2] # <<>> THEN Return(StrLess(c[2], l[2]))
                 ELSE Return(FALSE)
          ELSE Return(release_comparison.val < 0)

\* _compare_versions with the suffix tie-break applied before the release
\* comparison is consulted
_compare_versions_suffix_first(cur, lat) ==
    IF cur = lat THEN Return(FALSE)
    ELSE
      LET c == _split_version(cur)
          l == _split_version(lat)
          release_comparison == _compare_release_versions(c[1], l[1])
      IN  IF release_comparison.exc # "" THEN Raise(release_comparison.exc)
          ELSE IF c[2] # <<>> /\ l[2] = <<>> THEN Return(TRUE)
          ELSE IF c[2] = <<>> /\ l[2] # <<>> THEN Return(FALSE)
          ELSE IF release_comparison.val = 0 THEN
                 IF c[2] # <<>> /\ l[2] # <<>> THEN Return(StrLess(c[2], l[2]))
                 ELSE Return(FALSE)
          ELSE Return(release_comparison.val < 0)

_compare_versions(cur, lat) ==
    IF cur = lat THEN Return(FALSE)
    ELSE
      LET c == _split_version(cur)
          l == _split_version(lat)
          current_prerelease == c[2]
          latest_prerelease == l[2]
          release_comparison == _compare_release_versions(c[1], l[1])
      IN  IF release_comparison.exc # "" THEN Raise(release_comparison.exc)
          ELSE IF release_comparison.val = 0 THEN
                 IF current_prerelease # <<>> /\ latest_prerelease = <<>>
                   THEN Return(TRUE)
                 ELSE IF current_prerelease = <<>> /\ latest_prerelease # <<>>
                   THEN Return(FALSE)
                 ELSE IF current_prerelease # <<>> /\ latest_prerelease # <<>>
                   THEN Return(StrLess(current_prerelease, latest_prerelease))
                 ELSE Return(FALSE)
          ELSE Return(release_comparison.val < 0)

(***************************************************************************)
(* The inputs of the comparator.                                           *)
(***************************************************************************)
\* Every string over Chars of length n
StringsOfLen(n) == [1..n -> Chars]

\* Pairs of raw strings, each of at most MaxLen characters, MaxTotal together
RawPairs ==
    UNION {StringsOfLen(i) \X StringsOfLen(j) :
             <<i, j>> \in {p \in (0..MaxLen) \X (0..MaxLen) : p[1] + p[2] <= MaxTotal}}

\* str(n) of a natural number
RECURSIVE StrNat(_)
StrNat(n) ==
    LET d == <<"0", "1", "2", "3", "4", "5", "6", "7", "8", "9">>
    IN  IF n < 10 THEN <<d[n + 1]>> ELSE StrNat(n \div 10) \o <<d[(n % 10) + 1]>>

\* '.'.join(str(x) for x in t)
RECURSIVE StrTuple(_)
StrTuple(t) ==
    IF Len(t) = 1 THEN StrNat(t[1])
    ELSE StrNat(t[1]) \o <<".">> \o StrTuple(Tail(t))

\* The components numeric dotted versions are built from: zero, small ones
\* and a two-digit one
Components == {0, 1, 2, 10}

Tuples == UNION {[1..k -> Components] : k \in 1..MaxSegs}

\* No lookup is under way
NoRequest == [package_name |-> <<>>, version |-> <<>>]
NoRaw == [registry |-> "none"]
LookupIdle ==
    /\ req = NoRequest
    /\ raw = NoRaw
    /\ out = [kind |-> "none"]

\* No request is being handled
NoCall == [name |-> <<>>]
NoResponse == [kind |-> "none"]
RpcIdle ==
    /\ request = NoCall
    /\ response = NoResponse

\* No batch operation is under way
NoFile == [exists |-> FALSE]
NoRegistry == <<>>
BatchIdle ==
    /\ file = NoFile
    /\ registry = NoRegistry
    /\ job = [kind |-> "none"]

\* The history store is empty and no call was made
HistIdle ==
    /\ queries = <<>>
    /\ responses = <<>>
    /\ sequence = [queries |-> 0, responses |-> 0]
    /\ clock = <<1, 0>>
    /\ saved = <<>>
    /\ entry = [kind |-> "none"]

\* No job was queued
QueueIdle ==
    /\ jobs = <<>>
    /\ tasks = <<>>
    /\ polled = [kind |-> "none"]

\* No /analyze request is being streamed
StreamIdle ==
    /\ stream = [kind |-> "none"]
    /\ events = <<>>

\* No chain of versions is compared
OrderIdle ==
    /\ chain = <<>>
    /\ verdict = [kind |-> "none"]

LaterIdle == HistIdle /\ QueueIdle /\ StreamIdle /\ OrderIdle

InitCompare ==
    /\ LookupIdle
    /\ BatchIdle
    /\ RpcIdle
    /\ LaterIdle
    /\ ret = NotCalled
    /\ \/ \E p \in RawPairs :
            /\ current = p[1] /\ latest = p[2]
            /\ tupA = <<>> /\ tupB = <<>>
       \/ \E a \in Tuples, b \in Tuples :
            /\ tupA = a /\ tupB = b
            /\ current = StrTuple(a) /\ latest = StrTuple(b)

\* The call _compare_versions(current, latest)
CompareVersionsCall ==
    /\ ret.kind = "none"
    /\ ret' = _compare_versions(current, latest)
    /\ UNCHANGED <<current, latest, tupA, tupB>>
    /\ UNCHANGED lookupVars
    /\ UNCHANGED batchVars
    /\ UNCHANGED rpcVars
    /\ UNCHANGED laterVars

NextCompare == CompareVersionsCall

SpecCompare == InitCompare /\ [][NextCompare]_vars

(***************************************************************************)
(* Package lookups: values.                                                *)
(*                                                                         *)
(* Version strings stay sequences of characters. Every other string (a     *)
(* name, a URL, a message) is a sequence of tokens, so that an f-string is *)
(* a concatenation and "" is the empty sequence.                           *)
(***************************************************************************)
\* Python's None, and the marker of a key that a JSON object does not hold
None == <<"<None>">>
Missing == <<"<missing>">>

\* bool(x) of a string or None
Truthy(x) == x # None /\ x # <<>>

\* str(x) of a version value: str(None) is the four characters None
StrChars(x) == IF x = None THEN <<"N", "o", "n", "e">> ELSE x

\* str(x) of any other value
StrTok(x) == IF x = None THEN <<"None">> ELSE x

\* ErrorCode.TOOL_EXECUTION_ERROR
TOOL_EXECUTION_ERROR == "tool_execution_error"

\* version or latest_version, with the version ignored
VersionOr_latest(version, latest_version) == latest_version

\* version or latest_version: the version unless it is None or empty
VersionOr(version, latest_version) ==
    IF Truthy(version) THEN version ELSE latest_version

\* The outcome of a lookup: a returned value, or a raised McpError
NoValue == [none |-> TRUE]
NoError == [code |-> "", message |-> <<>>]
NoOutcome == [kind |-> "none", op |-> "", value |-> NoValue, error |-> NoError]
Returned(op, v) == [kind |-> "return", op |-> op, value |-> v, error |-> NoError]
\* raise McpError(code, message)
McpError(op, code, message) ==
    [kind |-> "raise", op |-> op, value |-> NoValue,
     error |-> [code |-> code, message |-> message]]

\* PackageInfo(...): the dataclass with its twelve fields
PackageInfo(name, current_version, latest_version, is_outdated, homepage, description, release_date, security_issues, documentation_url, api_docs_url, mypy_stub_url, github_url) ==
    [name |-> name, current_version |-> current_version,
     latest_version |-> latest_version, is_outdated |-> is_outdated,
     homepage |-> homepage, description |-> description,
     release_date |-> release_date, security_issues |-> security_issues,
     documentation_url |-> documentation_url, api_docs_url |-> api_docs_url,
     mypy_stub_url |-> mypy_stub_url, github_url |-> github_url]

\* str(e) of the exception a failed step raises
KeyErrorOf(key) == <<"'" \o key \o "'">>
AttributeErrorOf(what) == <<"'NoneType' object has no attribute '" \o what \o "'">>
CauseOfTransport(t) ==
    CASE t = "network_error" -> <<"ConnectError">>
      [] t = "http_error" -> <<"HTTPStatusError 404">>
      [] t = "bad_json" -> <<"JSONDecodeError">>

(***************************************************************************)
(* Labels of project_urls: str.lower and the substring test.               *)
(***************************************************************************)
UpperChars ==
    <<"A", "B", "C", "D", "E", "F", "G", "H", "I", "J", "K", "L", "M">>
      \o <<"N", "O", "P", "Q", "R", "S", "T", "U", "V", "W", "X", "Y", "Z">>
LowerChars ==
    <<"a", "b", "c", "d", "e", "f", "g", "h", "i", "j", "k", "l", "m">>
      \o <<"n", "o", "p", "q", "r", "s", "t", "u", "v", "w", "x", "y", "z">>

\* c.lower()
LowerChar(c) ==
    IF \E i \in 1..Len(UpperChars) : UpperChars[i] = c
    THEN LowerChars[CHOOSE i \in 1..Len(UpperChars) : UpperChars[i] = c]
    ELSE c

\* label.lower()
Lower(label) == [i \in 1..Len(label) |-> LowerChar(label[i])]

\* needle in hay, on str
Contains(hay, needle) ==
    \E k \in 0..(Len(hay) - Len(needle)) :
        \A i \in 1..Len(needle) : hay[k + i] = needle[i]

KwDocumentation == <<"d","o","c","u","m","e","n","t","a","t","i","o","n">>
KwDocs == <<"d","o","c","s">>
KwApi == <<"a","p","i">>
KwGithub == <<"g","i","t","h","u","b">>
KwSource == <<"s","o","u","r","c","e">>
KwRepository == <<"r","e","p","o","s","i","t","o","r","y">>
KeyDocumentation == <<"D","o","c","u","m","e","n","t","a","t","i","o","n">>
KeyHomepage == <<"H","o","m","e","p","a","g","e">>

\* project_urls.get(key): the URL of the entry with that label, else None
RECURSIVE DictGet(_, _)
DictGet(entries, key) ==
    IF entries = <<>> THEN None
    ELSE IF entries[1].label = key THEN entries[1].url
    ELSE DictGet(Tail(entries), key)

\* The loop over project_urls.items(): found holds documentation_url,
\* api_docs_url and github_url so far; each label sets at most one of them.
RECURSIVE ScanProjectUrls(_, _)
ScanProjectUrls(entries, found) ==
    IF entries = <<>> THEN found
    ELSE LET label_lower == Lower(entries[1].label)
             url == entries[1].url
             next ==
               IF Contains(label_lower, KwDocumentation) \/ Contains(label_lower, KwDocs)
                 THEN [found EXCEPT !.documentation_url = url]
               ELSE IF Contains(label_lower, KwApi)
                 THEN [found EXCEPT !.api_docs_url = url]
               ELSE IF \/ Contains(label_lower, KwGithub)
                       \/ Contains(label_lower, KwSource)
                       \/ Contains(label_lower, KwRepository)
                 THEN [found EXCEPT !.github_url = url]
               ELSE found
         IN  ScanProjectUrls(Tail(entries), next)

(***************************************************************************)
(* DependencyChecker.check_python_package                                  *)
(***************************************************************************)
\* The advisory request. An exception of the request, a status other than
\* 200, a body that is no JSON and a body that is no object leave
\* security_issues as initialised; a decoded object gives
\* safety_data.get("vulnerabilities", []): the default only when the key is
\* absent, else the value of the key, be it a list or null.
SecurityIssues(safety) ==
    CASE safety = "exception" -> <<>>
      [] safety = "status_500" -> <<>>
      [] safety = "bad_json" -> <<>>
      [] safety = "not_dict" -> <<>>
      [] safety = "no_key" -> <<>>
      [] safety = "null" -> None
      [] safety = "ok" -> <<"advisory">>

\* d is the decoded PyPI response: transport says how the request ended;
\* has_info, has_releases and the Missing marker say which keys the body holds.
check_python_package(package_name, version, d) ==
    LET op == "check_python_package"
        fail(cause) ==
            McpError(op, TOOL_EXECUTION_ERROR,
                     <<"Error checking Python package ">> \o package_name
                        \o <<": ">> \o cause)
        latest_version == StrChars(d.version)
        homepage ==
            IF Truthy(d.home_page) THEN StrTok(d.home_page)
            ELSE IF Truthy(d.project_url) THEN StrTok(d.project_url)
            ELSE <<"https://pypi.org/project/">> \o package_name \o <<"/">>
        description == IF Truthy(d.summary) THEN StrTok(d.summary) ELSE <<>>
        project_urls == IF d.project_urls = Missing THEN <<>> ELSE d.project_urls
        scanned == ScanProjectUrls(project_urls,
                      [documentation_url |-> None, api_docs_url |-> None,
                       github_url |-> None])
        documentation_url ==
            IF Truthy(scanned.documentation_url) THEN scanned.documentation_url
            ELSE IF Truthy(DictGet(project_urls, KeyDocumentation))
              THEN DictGet(project_urls, KeyDocumentation)
            ELSE IF Truthy(DictGet(project_urls, KeyHomepage))
              THEN DictGet(project_urls, KeyHomepage)
            ELSE homepage
        stub == IF package_name # <<>>
                THEN <<"https://github.com/python/typeshed/tree/master/stubs/">>
                        \o package_name
                ELSE None
        has_py_typed == d.urls = "sdist"
        mypy_stub_url ==
            IF ~Truthy(stub) /\ has_py_typed /\ Truthy(documentation_url)
            THEN documentation_url ELSE stub
        release_date ==
            CASE d.release_info = "absent" -> None
              [] d.release_info = "empty" -> None
              [] d.release_info = "no_time" -> <<>>
              [] d.release_info = "time" -> <<"2025-01-01T00:00:00">>
        current_version == VersionOr(version, latest_version)
        \* the rest of the body, from the call of _compare_versions on
        compared(is_outdated) ==
            IF is_outdated.kind = "raise" THEN fail(<<is_outdated.exc>>)
            ELSE Returned(op,
                   PackageInfo(package_name, current_version, latest_version,
                               is_outdated.val, homepage, description, release_date,
                               SecurityIssues(d.safety), documentation_url,
                               scanned.api_docs_url, mypy_stub_url, scanned.github_url))
    IN  IF d.transport # "ok" THEN fail(CauseOfTransport(d.transport))
        ELSE IF ~d.has_info THEN fail(KeyErrorOf("info"))
        ELSE IF d.version = Missing THEN fail(KeyErrorOf("version"))
        ELSE IF d.home_page = Missing THEN fail(KeyErrorOf("home_page"))
        ELSE IF ~Truthy(d.home_page) /\ d.project_url = Missing
          THEN fail(KeyErrorOf("project_url"))
        ELSE IF d.summary = Missing THEN fail(KeyErrorOf("summary"))
        ELSE IF d.project_urls = None THEN fail(AttributeErrorOf("items"))
        ELSE IF ~d.has_releases THEN fail(KeyErrorOf("releases"))
        ELSE compared(_compare_versions(current_version, latest_version))

(***************************************************************************)
(* DependencyChecker.check_npm_package                                     *)
(***************************************************************************)
\* url.replace(old, ""): every occurrence of the token old is removed
RemoveToken(url, old) ==
    LET keep == {i \in 1..Len(url) : url[i] # old}
        nth(k) == CHOOSE i \in keep : Cardinality({j \in keep : j < i}) = k - 1
    IN  [k \in 1..Cardinality(keep) |-> url[nth(k)]]

\* "github.com" in url
HasGithub(url) == \E i \in 1..Len(url) : url[i] = "github.com"

\* d is the decoded npm response: transport says how the request ended;
\* dist_tags, repository_kind and time say which keys the body holds.
check_npm_package(package_name, version, d) ==
    LET op == "check_npm_package"
        fail(cause) ==
            McpError(op, TOOL_EXECUTION_ERROR,
                     <<"Error checking npm package ">> \o package_name
                        \o <<": ">> \o cause)
        latest_version ==
            IF d.dist_tags = "missing" \/ d.latest = Missing THEN <<>>
            ELSE StrChars(d.latest)
        description == IF d.description = Missing THEN <<>> ELSE StrTok(d.description)
        homepage ==
            IF d.homepage = Missing
            THEN <<"https://www.npmjs.com/package/">> \o package_name
            ELSE StrTok(d.homepage)
        documentation_url ==
            IF d.documentation # Missing /\ Truthy(d.documentation)
            THEN d.documentation ELSE homepage
        repo_url ==
            IF d.repository_kind = "dict" /\ d.repository_url = Missing THEN <<>>
            ELSE d.repository_url
        github_url ==
            IF d.repository_kind \in {"dict", "str"} /\ HasGithub(repo_url)
            THEN RemoveToken(RemoveToken(repo_url, "git+"), ".git")
            ELSE None
        api_docs_url ==
            IF Truthy(github_url) THEN github_url \o <<"/blob/main/API.md">> ELSE None
        release_date ==
            IF Truthy(latest_version) /\ d.time = "has"
            THEN <<"2025-01-01T00:00:00">> ELSE None
        current_version == VersionOr(version, latest_version)
        \* the rest of the body, from the call of _compare_versions on
        compared(is_outdated) ==
            IF is_outdated.kind = "raise" THEN fail(<<is_outdated.exc>>)
            ELSE Returned(op,
                   PackageInfo(package_name, current_version, latest_version,
                               is_outdated.val, homepage, description, release_date,
                               <<>>, documentation_url, api_docs_url, None, github_url))
    IN  IF d.transport # "ok" THEN fail(CauseOfTransport(d.transport))
        ELSE IF d.dist_tags = "null" THEN fail(AttributeErrorOf("get"))
        ELSE IF d.repository_kind = "dict" /\ d.repository_url = None
          THEN fail(<<"argument of type 'NoneType' is not iterable">>)
        ELSE IF Truthy(latest_version) /\ d.time = "null"
          THEN fail(AttributeErrorOf("get"))
        ELSE compared(_compare_versions(current_version, latest_version))

(***************************************************************************)
(* server.py: the MCP tools check_python_package and check_npm_package     *)
(***************************************************************************)
\* packaging.version.parse(v), for the versions the tool is given here: a
\* release of dot-separated numbers, then at most one pre-release made of an
\* optional separator, the letter a or b and an optional number. Anything
\* else raises InvalidVersion, and None raises TypeError. The key orders the
\* release with its trailing zeros dropped and a pre-release before the
\* final release.
RECURSIVE StripZeros(_)
StripZeros(t) ==
    IF t # <<>> /\ t[Len(t)] = 0 THEN StripZeros(SubSeq(t, 1, Len(t) - 1)) ELSE t

PackagingParse(v) ==
    IF v = None THEN [exc |-> "TypeError", release |-> <<>>, pre |-> <<>>]
    ELSE
      LET n == RunLen(v)
          pieces == SplitOn(SubSeq(v, 1, n), ".")
          rest == SubSeq(v, n + 1, Len(v))
          dotSep == n > 0 /\ rest # <<>> /\ pieces[Len(pieces)] = <<>>
          rel == IF dotSep THEN SubSeq(pieces, 1, Len(pieces) - 1) ELSE pieces
          after == IF ~dotSep /\ rest # <<>> /\ rest[1] = "-" THEN Tail(rest) ELSE rest
          relOk == n > 0 /\ rel # <<>> /\ \A i \in 1..Len(rel) : IntOf(rel[i]).ok
          preOk == \/ after = <<>> /\ rest = <<>>
                   \/ /\ after # <<>> /\ after[1] \in {"a", "b"}
                      /\ (Len(after) = 1 \/ IntOf(Tail(after)).ok)
      IN  IF relOk /\ preOk
          THEN [exc |-> "",
                release |-> StripZeros([i \in 1..Len(rel) |-> IntOf(rel[i]).val]),
                pre |-> IF after = <<>> THEN <<>>
                        ELSE <<Code(after[1]), IntOf(Tail(after)).val>>]
          ELSE [exc |-> "InvalidVersion", release |-> <<>>, pre |-> <<>>]

\* a < b on tuples of integers
RECURSIVE IntTupleLess(_, _)
IntTupleLess(a, b) ==
    IF a = <<>> THEN b # <<>>
    ELSE IF b = <<>> THEN FALSE
    ELSE IF a[1] = b[1] THEN IntTupleLess(Tail(a), Tail(b))
    ELSE a[1] < b[1]

\* pv < pl on parsed versions, the left one parsed first
ParsedLess(pv, pl) ==
    IF pv.exc # "" THEN [exc |-> pv.exc, val |-> FALSE]
    ELSE IF pl.exc # "" THEN [exc |-> pl.exc, val |-> FALSE]
    ELSE [exc |-> "",
          val |-> IF pv.release # pl.release
                    THEN IntTupleLess(pv.release, pl.release)
                  ELSE IF pv.pre # <<>> /\ pl.pre = <<>> THEN TRUE
                  ELSE IF pv.pre = <<>> THEN FALSE
                  ELSE IntTupleLess(pv.pre, pl.pre)]

\* pkg_version.parse(v) < pkg_version.parse(l)
PackagingLess(v, l) == ParsedLess(PackagingParse(v), PackagingParse(l))

\* try: is_outdated = parsed / except Exception: is_outdated = fallback
TryOr(parsed, fallback) == IF parsed.exc = "" THEN parsed.val ELSE fallback

\* The dictionary a tool returns when it gives up
ErrorDict(package_name, error) ==
    [name |-> package_name, error |-> error, success |-> FALSE]

\* The keys author, license, keywords and requires_python are absent from
\* the modelled bodies, so their defaults are returned.
server_check_python_package(package_name, version, d) ==
    LET op == "server.check_python_package"
        giveUp(error) == Returned(op, ErrorDict(package_name, error))
        latest_version == d.version
        current_version == VersionOr(version, latest_version)
        is_outdated ==
            IF Truthy(version) /\ version # latest_version
            THEN TryOr(PackagingLess(version, latest_version),
                       version # latest_version)
            ELSE FALSE
        upload_time ==
            IF d.release_info = "time" THEN <<"2025-01-01T00:00:00">> ELSE None
        homepage ==
            IF d.home_page # Missing /\ Truthy(d.home_page) THEN d.home_page
            ELSE <<"https://pypi.org/project/">> \o package_name \o <<"/">>
    IN  IF d.transport = "network_error" THEN giveUp(CauseOfTransport(d.transport))
        ELSE IF d.transport = "http_error"
          THEN giveUp(<<"Package not found on PyPI (status: 404)">>)
        ELSE IF d.transport = "bad_json" THEN giveUp(CauseOfTransport(d.transport))
        ELSE IF ~d.has_info THEN giveUp(KeyErrorOf("info"))
        ELSE IF ~d.has_releases THEN giveUp(KeyErrorOf("releases"))
        ELSE IF d.version = Missing THEN giveUp(KeyErrorOf("version"))
        ELSE Returned(op,
               [name |-> package_name, current_version |-> current_version,
                latest_version |-> latest_version, is_outdated |-> is_outdated,
                description |-> IF d.summary = Missing THEN <<>> ELSE d.summary,
                homepage |-> homepage, author |-> <<>>, license |-> <<>>,
                keywords |-> <<>>, upload_time |-> upload_time,
                requires_python |-> None, success |-> TRUE])

\* The entry of the latest version under "versions" is modelled as an object
\* without keys, so the defaults of its fields are returned.
server_check_npm_package(package_name, version, d) ==
    LET op == "server.check_npm_package"
        giveUp(error) == Returned(op, ErrorDict(package_name, error))
        latest_version == d.latest
        current_version == VersionOr(version, latest_version)
        is_outdated ==
            IF Truthy(version) /\ version # latest_version
            THEN version # latest_version ELSE FALSE
    IN  IF d.transport = "network_error" THEN giveUp(CauseOfTransport(d.transport))
        ELSE IF d.transport = "http_error"
          THEN giveUp(<<"Package not found on npm (status: 404)">>)
        ELSE IF d.transport = "bad_json" THEN giveUp(CauseOfTransport(d.transport))
        ELSE IF d.dist_tags = "missing" THEN giveUp(KeyErrorOf("dist-tags"))
        ELSE IF d.dist_tags = "null"
          THEN giveUp(<<"'NoneType' object is not subscriptable">>)
        ELSE IF d.latest = Missing THEN giveUp(KeyErrorOf("latest"))
        ELSE IF d.versions = "missing" THEN giveUp(KeyErrorOf("versions"))
        ELSE IF d.versions = "hasnot"
          THEN giveUp(<<"'">> \o StrChars(d.latest) \o <<"'">>)
        ELSE Returned(op,
               [name |-> package_name, current_version |-> current_version,
                latest_version |-> latest_version, is_outdated |-> is_outdated,
                description |-> <<>>,
                homepage |-> <<"https://www.npmjs.com/package/">> \o package_name,
                author |-> <<>>, license |-> <<>>, keywords |-> <<>>,
                repository |-> <<>>, success |-> TRUE])

(***************************************************************************)
(* The lookups as a state machine: a request and a registry answer are     *)
(* drawn, and one of the four lookup operations handles them.              *)
(***************************************************************************)
\* The version strings of requests and registries: an older and a newer
\* release, a zero-padded spelling of the older one, and a pre-release of it
LookupVersions ==
    {<<"1">>, <<"2">>, <<"1", ".", "0">>, <<"1", "-", "a">>}

PackageNames == {<<"pkg">>}

\* version: Optional[str] = None; an empty string is as good as none
RequestVersions == {None, <<>>} \cup LookupVersions

Requests == [package_name : PackageNames, version : RequestVersions]

\* A request that never got a body
FailedTransports == {"network_error", "http_error", "bad_json"}

\* info.project_urls, when it is a mapping
SomeProjectUrls ==
    <<[label |-> <<"D", "o", "c", "s">>, url |-> <<"https://docs.example/">>],
      [label |-> <<"A", "P", "I">>, url |-> <<"https://docs.example/api">>],
      [label |-> <<"S", "o", "u", "r", "c", "e">>,
       url |-> <<"https://", "github.com", "/u/pkg">>]>>

\* How the advisory request ends: with an exception, a status of 500, a
\* body that is no JSON, and on status 200 a JSON list, an object without
\* the key vulnerabilities, one with the key null, one with advisories
AdvisoryAnswers ==
    {"exception", "status_500", "bad_json", "not_dict", "no_key", "null", "ok"}

PypiFields ==
    [version : {Missing, None} \cup LookupVersions,
     home_page : {Missing, <<>>, <<"https://example.com">>},
     project_url : {Missing, <<>>, <<"https://pypi.org/project/pkg/">>},
     summary : {Missing, None, <<"Test package">>},
     project_urls : {Missing, None, SomeProjectUrls},
     releases : {"missing", "absent", "empty", "no_time", "time"},
     safety : AdvisoryAnswers]

\* More mappings of info.project_urls
\* two labels of the documentation category
TwoDocs ==
    <<[label |-> <<"D", "o", "c", "u", "m", "e", "n", "t", "a", "t", "i", "o", "n">>, url |-> <<"https://docs.example/1">>],
      [label |-> <<"D", "o", "c", "s">>, url |-> <<"https://docs.example/2">>]>>

\* two labels of the api category
TwoApis ==
    <<[label |-> <<"A", "P", "I">>, url |-> <<"https://api.example/1">>],
      [label |-> <<"a", "p", "i", " ", "r", "e", "f">>, url |-> <<"https://api.example/2">>]>>

\* two labels of the github category
TwoSources ==
    <<[label |-> <<"S", "o", "u", "r", "c", "e">>, url |-> <<"https://src.example/1">>],
      [label |-> <<"R", "e", "p", "o", "s", "i", "t", "o", "r", "y">>, url |-> <<"https://src.example/2">>]>>

\* a label with keywords of the documentation and the api category
ApiDocs ==
    <<[label |-> <<"A", "P", "I", " ", "D", "o", "c", "s">>, url |-> <<"https://docs.example/api">>],
      [label |-> <<"F", "u", "n", "d", "i", "n", "g">>, url |-> <<"https://fund.example/">>]>>

\* a label with keywords of the api and the github category
SourceApi ==
    <<[label |-> <<"S", "o", "u", "r", "c", "e", " ", "A", "P", "I">>, url |-> <<"https://src.example/api">>],
      [label |-> <<"F", "u", "n", "d", "i", "n", "g">>, url |-> <<"https://fund.example/">>]>>

\* labels in capitals
UpperCase ==
    <<[label |-> <<"D", "O", "C", "S">>, url |-> <<"https://docs.example/1">>],
      [label |-> <<"G", "I", "T", "H", "U", "B">>, url |-> <<"https://src.example/1">>],
      [label |-> <<"R", "E", "S", "T", " ", "A", "P", "I">>, url |-> <<"https://api.example/1">>]>>

\* no label of the documentation category, and the key Homepage
HomepageKey ==
    <<[label |-> <<"H", "o", "m", "e", "p", "a", "g", "e">>, url |-> <<"https://home.example/">>],
      [label |-> <<"F", "u", "n", "d", "i", "n", "g">>, url |-> <<"https://fund.example/">>]>>

\* the key Documentation, and a later documentation label without URL
DocumentationKey ==
    <<[label |-> <<"D", "o", "c", "u", "m", "e", "n", "t", "a", "t", "i", "o", "n">>, url |-> <<"https://docs.example/1">>],
      [label |-> <<"D", "o", "c", "s">>, url |-> <<>>]>>

\* the key Documentation without URL, and the key Homepage
BlankDocumentation ==
    <<[label |-> <<"D", "o", "c", "u", "m", "e", "n", "t", "a", "t", "i", "o", "n">>, url |-> <<>>],
      [label |-> <<"H", "o", "m", "e", "p", "a", "g", "e">>, url |-> <<"https://home.example/">>]>>

\* {} and the mappings above
ProjectUrlsVariants ==
    {<<>>, TwoDocs, TwoApis, TwoSources, ApiDocs, SourceApi,
     UpperCase, HomepageKey, DocumentationKey, BlankDocumentation}

\* PyPI records that differ in their URLs only
UrlFields ==
    [version : {<<"2">>},
     home_page : {<<>>, <<"https://example.com">>},
     project_url : {<<>>, <<"https://pypi.org/project/pkg/">>},
     summary : {<<"Test package">>},
     project_urls : ProjectUrlsVariants,
     releases : {"time"},
     safety : {"no_key"}]

PypiBody(f) ==
    [registry |-> "pypi", transport |-> "ok", has_info |-> TRUE,
     version |-> f.version, home_page |-> f.home_page,
     project_url |-> f.project_url, summary |-> f.summary,
     project_urls |-> f.project_urls, urls |-> "sdist",
     has_releases |-> f.releases # "missing",
     release_info |-> IF f.releases = "missing" THEN "absent" ELSE f.releases,
     safety |-> f.safety]

\* A body without the key info, and the answers that carry no body at all
PypiBare(transport, has_info) ==
    [registry |-> "pypi", transport |-> transport, has_info |-> has_info,
     version |-> Missing, home_page |-> Missing, project_url |-> Missing,
     summary |-> Missing, project_urls |-> Missing, urls |-> "missing",
     has_releases |-> FALSE, release_info |-> "absent", safety |-> "exception"]

PypiAnswers ==
    {PypiBody(f) : f \in PypiFields \cup UrlFields}
      \cup {PypiBare(t, FALSE) : t \in FailedTransports \cup {"ok"}}

\* The URL git+https://github.com/u/pkg.github.io.git of a repository whose
\* name holds ".git"
PagesRepository ==
    <<"git+", "https://", "github.com", "/u/pkg", ".git", "hub.io", ".git">>

NpmFields ==
    [tags : {<<"missing", Missing>>, <<"null", Missing>>, <<"present", Missing>>,
             <<"present", None>>}
              \cup {<<"present", v>> : v \in LookupVersions},
     description : {Missing, None, <<"Test package">>},
     homepage : {Missing, None, <<"https://example.com">>},
     documentation : {Missing, <<"https://docs.example/">>},
     repository : {<<"missing", Missing>>, <<"null", Missing>>,
                   <<"dict", Missing>>, <<"dict", None>>,
                   <<"dict", <<"git+", "https://", "github.com", "/u/pkg", ".git">>>>,
                   <<"dict", <<"https://", "gitlab.com", "/u/pkg", ".git">>>>,
                   <<"dict", PagesRepository>>,
                   <<"str", <<"https://", "github.com", "/u/pkg">>>>},
     time : {"missing", "null", "has", "hasnot"},
     versions : {"missing", "has", "hasnot"}]

NpmBody(transport, f) ==
    [registry |-> "npm", transport |-> transport,
     dist_tags |-> f.tags[1], latest |-> f.tags[2],
     description |-> f.description, homepage |-> f.homepage,
     documentation |-> f.documentation,
     repository_kind |-> f.repository[1], repository_url |-> f.repository[2],
     time |-> f.time, versions |-> f.versions]

NpmNoFields ==
    [tags |-> <<"missing", Missing>>, description |-> Missing,
     homepage |-> Missing, documentation |-> Missing,
     repository |-> <<"missing", Missing>>, time |-> "missing",
     versions |-> "missing"]

NpmAnswers ==
    {NpmBody("ok", f) : f \in NpmFields}
      \cup {NpmBody(t, NpmNoFields) : t \in FailedTransports}

CompareIdle ==
    /\ current = <<>> /\ latest = <<>>
    /\ tupA = <<>> /\ tupB = <<>>
    /\ ret = NotCalled

InitLookup ==
    /\ CompareIdle
    /\ BatchIdle
    /\ RpcIdle
    /\ LaterIdle
    /\ req \in Requests
    /\ raw \in PypiAnswers \cup NpmAnswers
    /\ out = NoOutcome

\* DependencyChecker.check_python_package(package_name, version)
CheckPythonPackage ==
    /\ out.kind = "none" /\ raw.registry = "pypi"
    /\ out' = check_python_package(req.package_name, req.version, raw)
    /\ UNCHANGED <<req, raw>>
    /\ UNCHANGED cmpVars
    /\ UNCHANGED batchVars
    /\ UNCHANGED rpcVars
    /\ UNCHANGED laterVars

\* DependencyChecker.check_npm_package(package_name, version)
CheckNpmPackage ==
    /\ out.kind = "none" /\ raw.registry = "npm"
    /\ out' = check_npm_package(req.package_name, req.version, raw)
    /\ UNCHANGED <<req, raw>>
    /\ UNCHANGED cmpVars
    /\ UNCHANGED batchVars
    /\ UNCHANGED rpcVars
    /\ UNCHANGED laterVars

\* server.py: the tool check_python_package
ServerCheckPythonPackage ==
    /\ out.kind = "none" /\ raw.registry = "pypi"
    /\ out' = server_check_python_package(req.package_name, req.version, raw)
    /\ UNCHANGED <<req, raw>>
    /\ UNCHANGED cmpVars
    /\ UNCHANGED batchVars
    /\ UNCHANGED rpcVars
    /\ UNCHANGED laterVars

\* server.py: the tool check_npm_package
ServerCheckNpmPackage ==
    /\ out.kind = "none" /\ raw.registry = "npm"
    /\ out' = server_check_npm_package(req.package_name, req.version, raw)
    /\ UNCHANGED <<req, raw>>
    /\ UNCHANGED cmpVars
    /\ UNCHANGED batchVars
    /\ UNCHANGED rpcVars
    /\ UNCHANGED laterVars

NextLookup ==
    \/ CheckPythonPackage
    \/ CheckNpmPackage
    \/ ServerCheckPythonPackage
    \/ ServerCheckNpmPackage

SpecLookup == InitLookup /\ [][NextLookup]_vars

(***************************************************************************)
(* Batch operations over a dependency file: strings of the file.           *)
(*                                                                         *)
(* The text of a file is a sequence of lines, a line a sequence of         *)
(* characters without its line end.                                        *)
(***************************************************************************)
\* s.lstrip() and s.rstrip(), on lines whose only white space is the blank
RECURSIVE LStrip(_)
LStrip(s) == IF s # <<>> /\ s[1] = " " THEN LStrip(Tail(s)) ELSE s

RECURSIVE RStrip(_)
RStrip(s) ==
    IF s # <<>> /\ s[Len(s)] = " " THEN RStrip(SubSeq(s, 1, Len(s) - 1)) ELSE s

\* s.strip()
Strip(s) == RStrip(LStrip(s))

\* s.find(sep) + 1: where sep first occurs in s, 0 when it does not
Find(s, sep) ==
    LET at(k) == \A i \in 1..Len(sep) : s[k + i - 1] = sep[i]
        places == {k \in 1..(Len(s) - Len(sep) + 1) : at(k)}
    IN  IF places = {} THEN 0
        ELSE CHOOSE k \in places : \A j \in places : k <= j

\* s.split(sep), for a separator of one or more characters
RECURSIVE SplitStr(_, _)
SplitStr(s, sep) ==
    LET k == Find(s, sep)
    IN  IF k = 0 THEN <<s>>
        ELSE <<SubSeq(s, 1, k - 1)>>
               \o SplitStr(SubSeq(s, k + Len(sep), Len(s)), sep)

\* sub in s
InStr(sub, s) == Find(s, sub) # 0

OpEq == <<"=", "=">>
OpGe == <<">", "=">>
OpCompat == <<"~", "=">>
OpLe == <<"<", "=">>
Bracket == <<"[">>

\* A dependency as the batch operations pass it on: a name and a version
Dependency(package_name, version) ==
    [package_name |-> package_name, version |-> version]

(***************************************************************************)
(* DependencyChecker.check_python_file                                     *)
(***************************************************************************)
\* parts[0].strip() and parts[1].strip() if len(parts) > 1 else None
SplitRequirement(line, op) ==
    LET parts == SplitStr(line, op)
    IN  Dependency(Strip(parts[1]),
                   IF Len(parts) > 1 THEN Strip(parts[2]) ELSE None)

\* line.split("[")[0].strip() if "[" in line else line
WithoutExtras(line) ==
    IF InStr(Bracket, line) THEN Strip(SplitStr(line, Bracket)[1]) ELSE line

\* One line of requirements.txt: the packages it adds, none or one
RequirementOfLine(raw_line) ==
    LET line == Strip(raw_line)
    IN  IF line = <<>> \/ line[1] = "#" THEN <<>>
        ELSE IF InStr(OpEq, line) THEN <<SplitRequirement(line, OpEq)>>
        ELSE IF InStr(OpGe, line) THEN <<SplitRequirement(line, OpGe)>>
        ELSE IF InStr(OpCompat, line) THEN <<SplitRequirement(line, OpCompat)>>
        ELSE <<Dependency(WithoutExtras(line), None)>>

\* The packages of the lines with the last line first
RECURSIVE RequirementsOf_reversed(_)
RequirementsOf_reversed(lines) ==
    IF lines = <<>> THEN <<>>
    ELSE RequirementsOf_reversed(Tail(lines)) \o RequirementOfLine(lines[1])

\* for line in f.readlines(): packages, in the order of the lines
RECURSIVE RequirementsOf(_)
RequirementsOf(lines) ==
    IF lines = <<>> THEN <<>>
    ELSE RequirementOfLine(lines[1]) \o RequirementsOf(Tail(lines))

\* A value of the decoded file that is no string (a table, a number)
NonStr == <<"<nonstr>">>

NamePython == <<"p", "y", "t", "h", "o", "n">>

\* for package, version in poetry_deps.items()
RECURSIVE PoetryDependencies(_)
PoetryDependencies(deps) ==
    IF deps = <<>> THEN <<>>
    ELSE LET package == deps[1].package
             version == deps[1].version
             this == IF package = NamePython THEN <<>>
                     ELSE IF version # NonStr THEN <<Dependency(package, version)>>
                     ELSE <<Dependency(package, None)>>
         IN  this \o PoetryDependencies(Tail(deps))

\* for dep in project_deps
RECURSIVE ProjectDependencies(_)
ProjectDependencies(deps) ==
    IF deps = <<>> THEN <<>>
    ELSE LET dep == deps[1]
             this == IF dep = NonStr THEN <<>>
                     ELSE IF InStr(OpEq, dep) THEN <<SplitRequirement(dep, OpEq)>>
                     ELSE <<Dependency(WithoutExtras(dep), None)>>
         IN  this \o ProjectDependencies(Tail(deps))

\* The dependencies of a decoded pyproject.toml: toml.style says whether the
\* document holds tool.poetry, else project, else neither; a style without
\* the key dependencies has none.
TomlDependencies(toml) ==
    CASE toml.style = "poetry" -> PoetryDependencies(toml.deps)
      [] toml.style = "project" -> ProjectDependencies(toml.deps)
      [] OTHER -> <<>>

\* file_path.endswith(ext): the last token of a path is its extension
EndsWith(file_path, ext) == file_path # <<>> /\ file_path[Len(file_path)] = ext

\* What the registries answer for a package of a batch: a package the
\* registry does not know is answered with status 404
Answer(reg, package_name) ==
    IF package_name \in DOMAIN reg THEN reg[package_name] ELSE "unknown"

GoodPypi ==
    PypiBody([version |-> <<"2">>, home_page |-> <<"https://example.com">>,
              project_url |-> Missing, summary |-> <<"Test package">>,
              project_urls |-> Missing, releases |-> "time", safety |-> "no_key"])

BrokenPypi ==
    PypiBody([version |-> Missing, home_page |-> <<"https://example.com">>,
              project_url |-> Missing, summary |-> <<"Test package">>,
              project_urls |-> Missing, releases |-> "time", safety |-> "no_key"])

PypiOf(reg, package_name) ==
    CASE Answer(reg, package_name) = "good" -> GoodPypi
      [] Answer(reg, package_name) = "broken" -> BrokenPypi
      [] Answer(reg, package_name) = "down" -> PypiBare("network_error", FALSE)
      [] Answer(reg, package_name) = "unknown" -> PypiBare("http_error", FALSE)

\* The progress of a batch: the lookups made and the records collected
Started(op) ==
    [kind |-> "return", op |-> op, value |-> <<>>, lookups |-> <<>>,
     error |-> NoError, summary |-> NoValue]

\* raise McpError(code, message) out of a batch operation
BatchError(op, code, message) ==
    [kind |-> "raise", op |-> op, value |-> <<>>, lookups |-> <<>>,
     error |-> [code |-> code, message |-> message], summary |-> NoValue]

\* The body of the loop, with the first failing lookup ending the batch
TryLookup_abort(acc, dep, r) ==
    IF r.kind = "return"
    THEN [acc EXCEPT !.lookups = Append(@, dep), !.value = Append(@, r.value)]
    ELSE [acc EXCEPT !.lookups = Append(@, dep), !.kind = "raise", !.error = r.error]

\* The body of the loop: try the lookup and append its record; an exception
\* is logged and the loop goes on
TryLookup(acc, dep, r) ==
    IF r.kind = "return"
    THEN [acc EXCEPT !.lookups = Append(@, dep), !.value = Append(@, r.value)]
    ELSE [acc EXCEPT !.lookups = Append(@, dep)]

\* for package_name, version in packages
RECURSIVE LoopPythonPackages(_, _, _)
LoopPythonPackages(packages, reg, acc) ==
    IF packages = <<>> \/ acc.kind = "raise" THEN acc
    ELSE LET dep == packages[1]
             r == check_python_package(dep.package_name, dep.version,
                                       PypiOf(reg, dep.package_name))
         IN  LoopPythonPackages(Tail(packages), reg, TryLookup(acc, dep, r))

\* f is the file at file_path: f.exists, its lines if it is text, and f.toml,
\* what tomllib.load makes of it
check_python_file(f, reg) ==
    LET op == "check_python_file"
        fail(cause) ==
            BatchError(op, TOOL_EXECUTION_ERROR,
                       <<"Error checking Python file ">> \o f.path
                          \o <<": ">> \o cause)
        packages ==
            IF EndsWith(f.path, ".txt") THEN RequirementsOf(f.lines)
            ELSE IF EndsWith(f.path, ".toml") THEN TomlDependencies(f.toml)
            ELSE <<>>
    IN  IF ~f.exists THEN fail(<<"File not found: ">> \o f.path)
        ELSE IF EndsWith(f.path, ".toml") /\ f.toml.style = "invalid"
          THEN fail(<<"TOMLDecodeError">>)
        ELSE LoopPythonPackages(packages, reg, Started(op))

(***************************************************************************)
(* DependencyChecker.check_npm_file                                        *)
(***************************************************************************)
\* dependencies.update(more): a key already there keeps its place and takes
\* the new value, a new key goes to the end
RECURSIVE DictUpdate(_, _)
DictUpdate(dependencies, more) ==
    IF more = <<>> THEN dependencies
    ELSE LET e == more[1]
             known == \E i \in 1..Len(dependencies) : dependencies[i].name = e.name
             next == IF known
                     THEN [i \in 1..Len(dependencies) |->
                             IF dependencies[i].name = e.name THEN e
                             ELSE dependencies[i]]
                     ELSE Append(dependencies, e)
         IN  DictUpdate(next, Tail(more))

\* The value of a key of the decoded package.json: absent, null, or an
\* object whose entries are kept in their order
AbsentKey == [kind |-> "missing", entries |-> <<>>]
NullValue == [kind |-> "null", entries |-> <<>>]
Object(entries) == [kind |-> "object", entries |-> entries]

\* pkg_data.get(key, {}), of a key that is absent or holds an object
OrEmpty(v) == v.entries

\* re.search(r'[\d.]+', version_str).group(0): the first run of digits and
\* dots, None when there is none
FirstVersionRun(version_str) ==
    LET starts == {i \in 1..Len(version_str) : version_str[i] \in ReleaseChars}
        first == CHOOSE i \in starts : \A j \in starts : i <= j
    IN  IF starts = {} THEN None
        ELSE SubSeq(version_str, first, first + RunFrom(version_str, first) - 1)

GoodNpm ==
    NpmBody("ok",
            [tags |-> <<"present", <<"2">>>>, description |-> <<"Test package">>,
             homepage |-> <<"https://example.com">>, documentation |-> Missing,
             repository |-> <<"missing", Missing>>, time |-> "has",
             versions |-> "has"])

BrokenNpm ==
    NpmBody("ok",
            [tags |-> <<"null", Missing>>, description |-> <<"Test package">>,
             homepage |-> <<"https://example.com">>, documentation |-> Missing,
             repository |-> <<"missing", Missing>>, time |-> "has",
             versions |-> "has"])

NpmOf(reg, package_name) ==
    CASE Answer(reg, package_name) = "good" -> GoodNpm
      [] Answer(reg, package_name) = "broken" -> BrokenNpm
      [] Answer(reg, package_name) = "down" -> NpmBody("network_error", NpmNoFields)
      [] Answer(reg, package_name) = "unknown" -> NpmBody("http_error", NpmNoFields)

\* for package_name, version_str in dependencies.items(): a version_str that
\* is no string makes re.search raise before the lookup is made
RECURSIVE LoopNpmPackages(_, _, _)
LoopNpmPackages(dependencies, reg, acc) ==
    IF dependencies = <<>> \/ acc.kind = "raise" THEN acc
    ELSE LET package_name == dependencies[1].name
             version_str == dependencies[1].version
             version == IF ~Truthy(version_str) THEN None
                        ELSE FirstVersionRun(version_str)
             dep == Dependency(package_name, version)
             r == check_npm_package(package_name, version, NpmOf(reg, package_name))
             next == IF version_str = NonStr THEN acc ELSE TryLookup(acc, dep, r)
         IN  LoopNpmPackages(Tail(dependencies), reg, next)

\* f is the file at file_path: f.exists, and f.json, what json.load makes of it
check_npm_file(f, reg) ==
    LET op == "check_npm_file"
        fail(cause) ==
            BatchError(op, TOOL_EXECUTION_ERROR,
                       <<"Error checking npm file ">> \o f.path
                          \o <<": ">> \o cause)
        dependencies ==
            DictUpdate(DictUpdate(<<>>, OrEmpty(f.json.dependencies)),
                       OrEmpty(f.json.devDependencies))
    IN  IF ~f.exists THEN fail(<<"File not found: ">> \o f.path)
        ELSE IF f.json.style = "invalid" THEN fail(<<"JSONDecodeError">>)
        ELSE IF f.json.style = "not_object" THEN fail(AttributeErrorOf("get"))
        ELSE IF f.json.dependencies = NullValue \/ f.json.devDependencies = NullValue
          THEN fail(<<"'NoneType' object is not iterable">>)
        ELSE LoopNpmPackages(dependencies, reg, Started(op))

(***************************************************************************)
(* server.py: the MCP tool analyze_dependencies                            *)
(***************************************************************************)
\* line.split("==")[0].split(">=")[0].split("<=")[0].split("~=")[0].strip()
NameOfLine(line) ==
    Strip(SplitStr(SplitStr(SplitStr(SplitStr(line, OpEq)[1], OpGe)[1],
                            OpLe)[1], OpCompat)[1])

\* for line in f: the names of requirements.txt
RECURSIVE NamesOf(_)
NamesOf(lines) ==
    IF lines = <<>> THEN <<>>
    ELSE LET line == Strip(lines[1])
             this == IF line # <<>> /\ line[1] # "#" /\ NameOfLine(line) # <<>>
                     THEN <<NameOfLine(line)>> ELSE <<>>
         IN  this \o NamesOf(Tail(lines))

\* list(deps.keys())
Keys(entries) == [i \in 1..Len(entries) |-> entries[i].name]

\* for i, dep in enumerate(dependencies): the tools never raise, and every
\* result is appended
RECURSIVE LoopTools(_, _, _, _)
LoopTools(dependencies, package_manager, reg, acc) ==
    IF dependencies = <<>> THEN acc
    ELSE LET dep == dependencies[1]
             r == IF package_manager \in {"pip", "poetry"}
                    THEN server_check_python_package(dep, None, PypiOf(reg, dep)).value
                  ELSE IF package_manager = "npm"
                    THEN server_check_npm_package(dep, None, NpmOf(reg, dep)).value
                  ELSE ErrorDict(dep, <<"Unsupported package manager">>)
             next == [acc EXCEPT !.lookups = Append(@, Dependency(dep, None)),
                                 !.value = Append(@, r)]
         IN  LoopTools(Tail(dependencies), package_manager, reg, next)

\* sum(1 for r in results if r.get("is_outdated", False))
OutdatedCount(results) ==
    Cardinality({i \in 1..Len(results) :
                    "is_outdated" \in DOMAIN results[i] /\ results[i].is_outdated})

\* sum(1 for r in results if not r.get("success", True))
ErrorCount(results) ==
    Cardinality({i \in 1..Len(results) : ~results[i].success})

\* The result of the tool: job.value holds the list under "dependencies" and
\* job.summary the other keys of the returned dictionary
analyze_dependencies(f, package_manager, reg) ==
    LET op == "analyze_dependencies"
        giveUp(error) ==
            [Started(op) EXCEPT !.summary =
                [file_path |-> f.path, error |-> error, success |-> FALSE]]
        pip == package_manager = "pip"
                 /\ (EndsWith(f.path, ".txt") \/ EndsWith(f.path, ".in"))
        npm == ~pip /\ package_manager = "npm" /\ EndsWith(f.path, ".json")
        dependencies ==
            IF pip THEN NamesOf(f.lines)
            ELSE IF npm
              THEN Keys(OrEmpty(f.json.dependencies))
                     \o Keys(OrEmpty(f.json.devDependencies))
            ELSE <<>>
        summarised(done) ==
            [done EXCEPT !.summary =
                [file_path |-> f.path, package_manager |-> package_manager,
                 total_dependencies |-> Len(dependencies),
                 outdated_count |-> OutdatedCount(done.value),
                 error_count |-> ErrorCount(done.value),
                 success |-> TRUE]]
    IN  IF ~f.exists
          THEN [Started(op) EXCEPT !.summary =
                  [error |-> <<"File not found: ">> \o f.path, success |-> FALSE]]
        ELSE IF npm /\ f.json.style = "invalid" THEN giveUp(<<"JSONDecodeError">>)
        ELSE IF npm /\ f.json.style = "not_object" THEN giveUp(AttributeErrorOf("get"))
        ELSE IF npm /\ (f.json.dependencies = NullValue \/ f.json.devDependencies = NullValue)
          THEN giveUp(AttributeErrorOf("keys"))
        ELSE summarised(LoopTools(dependencies, package_manager, reg, Started(op)))

(***************************************************************************)
(* archive/dep_checker_mcp.py: DependencyChecker.check_python_package and  *)
(* check_python_file of the earlier server                                 *)
(***************************************************************************)
INVALID_PARAMS == "invalid_params"

\* _compare_versions of the archive: the digit runs of the whole strings
archive_compare_versions(cur, lat) ==
    IF cur = lat THEN FALSE
    ELSE _compare_release_versions(cur, lat).val = -1

\* PackageInfo of the archive: seven fields, and __post_init__ turns a
\* security_issues of None into the empty list
ArchivePackageInfo(name, current_version, latest_version, is_outdated, homepage, description, release_date, security_issues) ==
    [name |-> name, current_version |-> current_version,
     latest_version |-> latest_version, is_outdated |-> is_outdated,
     homepage |-> homepage, description |-> description,
     release_date |-> release_date,
     security_issues |-> IF security_issues = None THEN <<>> ELSE security_issues]

archive_check_python_package(package_name, version, d) ==
    LET op == "archive.check_python_package"
        fail(cause) ==
            McpError(op, TOOL_EXECUTION_ERROR,
                     <<"Error checking Python package ">> \o package_name
                        \o <<": ">> \o cause)
        latest_version == d.version
        homepage == IF Truthy(d.home_page) THEN d.home_page ELSE d.project_url
        release_date ==
            CASE d.release_info = "time" -> <<"2025-01-01T00:00:00">>
              [] OTHER -> None
        current_version == VersionOr(version, latest_version)
    IN  IF d.transport # "ok" THEN fail(CauseOfTransport(d.transport))
        ELSE IF ~d.has_info THEN fail(KeyErrorOf("info"))
        ELSE IF d.version = Missing THEN fail(KeyErrorOf("version"))
        ELSE IF d.home_page = Missing THEN fail(KeyErrorOf("home_page"))
        ELSE IF ~Truthy(d.home_page) /\ d.project_url = Missing
          THEN fail(KeyErrorOf("project_url"))
        ELSE IF d.summary = Missing THEN fail(KeyErrorOf("summary"))
        ELSE IF ~d.has_releases THEN fail(KeyErrorOf("releases"))
        ELSE IF current_version # latest_version /\ latest_version = None
          THEN fail(<<"expected string or bytes-like object">>)
        ELSE Returned(op,
               ArchivePackageInfo(package_name, current_version, latest_version,
                                  archive_compare_versions(current_version, latest_version),
                                  homepage, d.summary, release_date,
                                  SecurityIssues(d.safety)))

Letters ==
    {"a", "b", "c", "d", "e", "f", "g", "h", "i", "j", "k", "l", "m", "n",
     "o", "p", "q", "r", "s", "t", "u", "v", "w", "x", "y", "z"}

\* The class [a-zA-Z0-9_.-], on lines in lower case
NameChars == Letters \cup DigitChars \cup {"_", ".", "-"}

\* The length of the longest run of characters of a class at the start of s
RECURSIVE Span(_, _)
Span(s, class) ==
    IF s # <<>> /\ s[1] \in class THEN 1 + Span(Tail(s), class) ELSE 0

\* s without its first n characters
Drop(s, n) == SubSeq(s, n + 1, Len(s))

\* s without its longest leading run of characters of a class
SkipSpan(s, class) == Drop(s, Span(s, class))

\* s.strip(chars)
RECURSIVE StripChars(_, _)
StripChars(s, chars) ==
    IF s # <<>> /\ s[1] \in chars THEN StripChars(Tail(s), chars)
    ELSE IF s # <<>> /\ s[Len(s)] \in chars
      THEN StripChars(SubSeq(s, 1, Len(s) - 1), chars)
    ELSE s

OperatorChars == {"=", "<", ">", "!", "~"}

\* re.match(r"==\s*([a-zA-Z0-9_.-]+)", version_spec).group(1), None when
\* version_spec is None or does not match
ExactVersion(version_spec) ==
    IF /\ version_spec # None
       /\ Len(version_spec) >= 2
       /\ SubSeq(version_spec, 1, 2) = OpEq
       /\ Span(SkipSpan(Drop(version_spec, 2), {" "}), NameChars) > 0
    THEN SubSeq(SkipSpan(Drop(version_spec, 2), {" "}), 1,
                Span(SkipSpan(Drop(version_spec, 2), {" "}), NameChars))
    ELSE None

\* match.group(2) of ([=<>!~]+.*)?, on what follows the name and the blanks
VersionSpec(spaced) ==
    IF spaced # <<>> /\ spaced[1] \in OperatorChars THEN spaced ELSE None

\* One line of requirements.txt under
\* re.match(r"([a-zA-Z0-9_.-]+)\s*([=<>!~]+.*)?", line)
ArchiveRequirementOfLine(raw_line) ==
    LET line == Strip(raw_line)
        n == Span(line, NameChars)
    IN  IF line = <<>> \/ line[1] = "#" \/ n = 0 THEN <<>>
        ELSE <<Dependency(SubSeq(line, 1, n),
                          ExactVersion(VersionSpec(SkipSpan(Drop(line, n), {" "}))))>>

RECURSIVE ArchiveRequirementsOf(_)
ArchiveRequirementsOf(lines) ==
    IF lines = <<>> THEN <<>>
    ELSE ArchiveRequirementOfLine(lines[1]) \o ArchiveRequirementsOf(Tail(lines))

Quotes == {"\"", "'"}
PoetryHeader == <<"[", "t", "o", "o", "l", ".", "p", "o", "e", "t", "r", "y", ".", "d", "e", "p", "e", "n", "d", "e", "n", "c", "i", "e", "s", "]">>
ListHeader == <<"d", "e", "p", "e", "n", "d", "e", "n", "c", "i", "e", "s", " ", "=", " ", "[">>

\* The characters of the class [^"\'#,]
FreeSpan(s) ==
    IF \A i \in 1..Len(s) : s[i] \notin Quotes \cup {"#", ","} THEN Len(s)
    ELSE (CHOOSE i \in 1..Len(s) :
             /\ s[i] \in Quotes \cup {"#", ","}
             /\ \A j \in 1..(i - 1) : s[j] \notin Quotes \cup {"#", ","}) - 1

\* version_spec = match.group(2).strip(); version = version_spec.strip('"\'>=^~')
TomlVersionOf(group2) ==
    StripChars(Strip(group2), Quotes \cup {">", "=", "^", "~"})

\* The end of the pattern, \s*["\']*([^"\'#,]+): blanks is the length of the
\* run \s* took and s7 what follows the quotes. With nothing for the group to
\* take there, \s* hands back its last blank and the group is that blank.
TomlGroup(package_name, blanks, s7) ==
    IF FreeSpan(s7) > 0
      THEN <<Dependency(package_name, TomlVersionOf(SubSeq(s7, 1, FreeSpan(s7))))>>
    ELSE IF blanks > 0 THEN <<Dependency(package_name, TomlVersionOf(<<" ">>))>>
    ELSE <<>>

\* The middle of the pattern, [=]+, on what follows the name, its quotes and
\* the blanks
TomlEquals(package_name, s4) ==
    IF package_name = <<>> \/ Span(s4, {"="}) = 0 THEN <<>>
    ELSE TomlGroup(package_name, Span(SkipSpan(s4, {"="}), {" "}),
                   SkipSpan(SkipSpan(SkipSpan(s4, {"="}), {" "}), Quotes))

\* The start of the pattern, ["\']*([a-zA-Z0-9_.-]+)["\']*\s*, on the line
\* after its leading quotes
TomlName(s1) ==
    TomlEquals(SubSeq(s1, 1, Span(s1, NameChars)),
               SkipSpan(SkipSpan(SkipSpan(s1, NameChars), Quotes), {" "}))

\* One line of a dependencies section of pyproject.toml:
\* line.strip('"\',[]()') and then
\* re.match(r'["\']*([a-zA-Z0-9_.-]+)["\']*\s*[=]+\s*["\']*([^"\'#,]+)', line)
ArchiveTomlOfLine(stripped) ==
    TomlName(SkipSpan(StripChars(stripped, Quotes \cup {",", "[", "]", "(", ")"}),
                      Quotes))

\* for line in content.splitlines(), with dependencies_section carried along
RECURSIVE ArchiveTomlDependencies(_, _)
ArchiveTomlDependencies(lines, dependencies_section) ==
    IF lines = <<>> THEN <<>>
    ELSE LET line == Strip(lines[1])
             opens == line = PoetryHeader \/ line = ListHeader
             section == IF opens THEN TRUE
                        ELSE IF (line # <<>> /\ line[1] = "[") \/ line = <<"]">>
                          THEN FALSE
                        ELSE dependencies_section
             this == IF ~opens /\ section /\ InStr(<<"=">>, line)
                     THEN ArchiveTomlOfLine(line) ELSE <<>>
         IN  this \o ArchiveTomlDependencies(Tail(lines), section)

\* The error record that stands for a package whose lookup failed
ErrorRecord(dep, r) ==
    [name |-> dep.package_name,
     current_version |-> IF Truthy(dep.version) THEN dep.version ELSE <<"unknown">>,
     latest_version |-> <<"error">>, is_outdated |-> FALSE, homepage |-> None,
     description |-> <<"Error: ">> \o r.error.message, release_date |-> None,
     security_issues |-> <<>>]

\* for package_name, version in packages: a failed lookup leaves an error record
RECURSIVE ArchiveLoopPythonPackages(_, _, _)
ArchiveLoopPythonPackages(packages, reg, acc) ==
    IF packages = <<>> THEN acc
    ELSE LET dep == packages[1]
             r == archive_check_python_package(dep.package_name, dep.version,
                                               PypiOf(reg, dep.package_name))
             next == [acc EXCEPT
                        !.lookups = Append(@, dep),
                        !.value = Append(@, IF r.kind = "return" THEN r.value
                                            ELSE ErrorRecord(dep, r))]
         IN  ArchiveLoopPythonPackages(Tail(packages), reg, next)

\* f is the file at file_path: f.exists and the lines of its text
archive_check_python_file(f, reg) ==
    LET op == "archive.check_python_file"
        packages ==
            IF EndsWith(f.path, ".txt") THEN ArchiveRequirementsOf(f.lines)
            ELSE IF EndsWith(f.path, ".toml")
              THEN ArchiveTomlDependencies(f.lines, FALSE)
            ELSE <<>>
    IN  IF ~f.exists
          THEN BatchError(op, INVALID_PARAMS, <<"File not found: ">> \o f.path)
        ELSE ArchiveLoopPythonPackages(packages, reg, Started(op))

(***************************************************************************)
(* The batch operations as a state machine: a file and the registries'     *)
(* answers are drawn, and one batch operation handles the file.            *)
(***************************************************************************)
\* most lines of a requirements file
MaxLines == 3

\* The lines of requirements files: a comment, an empty line, package a
\* pinned, with a lower bound, a compatible release, with extras and with an
\* upper bound, package b pinned with blanks around, and b alone
RequirementLines ==
    {<<"#", "c">>,
     <<>>,
     <<"a", "=", "=", "1">>,
     <<"a", ">", "=", "1">>,
     <<"a", "~", "=", "1">>,
     <<"a", "[", "x", "]">>,
     <<"a", "<", "=", "1">>,
     <<" ", "b", " ", "=", "=", " ", "2", " ">>,
     <<"b">>}

\* The texts of at most n lines
LinesUpTo(n) == UNION {[1..k -> RequirementLines] : k \in 0..n}

NoToml == [style |-> "other", deps |-> <<>>]
NoJson == [style |-> "invalid", dependencies |-> AbsentKey, devDependencies |-> AbsentKey]

TextFile(path, lines) ==
    [exists |-> TRUE, path |-> path, lines |-> lines, toml |-> NoToml, json |-> NoJson]

\* requirements.txt and requirements.in
RequirementsFiles ==
    {TextFile(<<"requirements", ".txt">>, ls) : ls \in LinesUpTo(MaxLines)}
      \cup {TextFile(<<"requirements", ".in">>, ls) : ls \in LinesUpTo(1)}

\* pyproject.toml: its lines, and what tomllib.load makes of them
TomlFile(lines, toml) ==
    [exists |-> TRUE, path |-> <<"pyproject", ".toml">>, lines |-> lines,
     toml |-> toml, json |-> NoJson]

TomlInvalid ==
    TomlFile(<<<<"[", "t", "o", "o", "l">>>>,
             [style |-> "invalid", deps |-> <<>>])

TomlPoetry ==
    TomlFile(<<<<"[", "t", "o", "o", "l", ".", "p", "o", "e", "t", "r", "y", ".", "d", "e", "p", "e", "n", "d", "e", "n", "c", "i", "e", "s", "]">>,
               <<"p", "y", "t", "h", "o", "n", " ", "=", " ", "\"", "^", "3", "\"">>,
               <<"a", " ", "=", " ", "\"", "^", "1", "\"">>,
               <<"b", " ", "=", " ", "{", "v", " ", "=", " ", "\"", "2", "\"", "}">>>>,
             [style |-> "poetry", deps |-> <<[package |-> NamePython, version |-> <<"^", "3">>], [package |-> <<"a">>, version |-> <<"^", "1">>], [package |-> <<"b">>, version |-> NonStr]>>])

TomlProject ==
    TomlFile(<<<<"[", "p", "r", "o", "j", "e", "c", "t", "]">>,
               <<"d", "e", "p", "e", "n", "d", "e", "n", "c", "i", "e", "s", " ", "=", " ", "[">>,
               <<"\"", "a", "=", "=", "1", "\"", ",">>,
               <<"\"", "b", "\"", ",">>,
               <<"]">>>>,
             [style |-> "project", deps |-> <<<<"a", "=", "=", "1">>, <<"b">>>>])

TomlRanges ==
    TomlFile(<<<<"[", "p", "r", "o", "j", "e", "c", "t", "]">>,
               <<"d", "e", "p", "e", "n", "d", "e", "n", "c", "i", "e", "s", " ", "=", " ", "[">>,
               <<"\"", "a", ">", "=", "1", "\"", ",">>,
               <<"\"", "b", "[", "x", "]", "\"", ",">>,
               <<"]">>>>,
             [style |-> "project", deps |-> <<<<"a", ">", "=", "1">>, <<"b", "[", "x", "]">>>>])

TomlOther ==
    TomlFile(<<<<"[", "o", "t", "h", "e", "r", "]">>,
               <<"a", " ", "=", " ", "\"", "1", "\"">>>>,
             [style |-> "other", deps |-> <<>>])

TomlFiles == {TomlInvalid, TomlPoetry, TomlProject, TomlRanges, TomlOther}

\* package.json, as json.load decodes it
JsonFile(json) ==
    [exists |-> TRUE, path |-> <<"package", ".json">>, lines |-> <<>>,
     toml |-> NoToml, json |-> json]

JsonObject(dependencies, devDependencies) ==
    [style |-> "object", dependencies |-> dependencies,
     devDependencies |-> devDependencies]

Entry(name, version) == [name |-> name, version |-> version]

JsonFiles ==
    {JsonFile(j) : j \in
       {NoJson,
        [style |-> "not_object", dependencies |-> AbsentKey, devDependencies |-> AbsentKey],
        JsonObject(AbsentKey, AbsentKey),
        JsonObject(NullValue, AbsentKey),
        JsonObject(Object(<<Entry(<<"a">>, <<"^", "1">>), Entry(<<"b">>, <<"2">>)>>),
                   AbsentKey),
        JsonObject(Object(<<Entry(<<"a">>, <<"^", "1">>)>>),
                   Object(<<Entry(<<"b">>, <<"*">>), Entry(<<"a">>, <<"2">>)>>)),
        JsonObject(Object(<<Entry(<<"a">>, NonStr), Entry(<<"b">>, None)>>), NullValue),
        JsonObject(Object(<<Entry(<<"a">>, NonStr), Entry(<<"b">>, <<>>)>>), AbsentKey)}}

MissingFiles ==
    {[exists |-> FALSE, path |-> p, lines |-> <<>>, toml |-> NoToml, json |-> NoJson] :
        p \in {<<"requirements", ".txt">>, <<"package", ".json">>}}

Files == RequirementsFiles \cup TomlFiles \cup JsonFiles \cup MissingFiles

\* The packages the registries know, and how each lookup of one ends: with a
\* usable record, a record without the latest version, or no answer
BatchNames == {<<"a">>, <<"b">>}
Registries == [BatchNames -> {"good", "broken", "down"}]

PackageManagers == {"pip", "poetry", "npm", "yarn"}

NoJob == [kind |-> "none"]

InitBatch ==
    /\ CompareIdle
    /\ LookupIdle
    /\ RpcIdle
    /\ LaterIdle
    /\ file \in Files
    /\ registry \in Registries
    /\ job = NoJob

\* DependencyChecker.check_python_file(file_path)
CheckPythonFile ==
    /\ job.kind = "none" /\ file # NoFile
    /\ job' = check_python_file(file, registry)
    /\ UNCHANGED <<file, registry>>
    /\ UNCHANGED cmpVars
    /\ UNCHANGED lookupVars
    /\ UNCHANGED rpcVars
    /\ UNCHANGED laterVars

\* DependencyChecker.check_npm_file(file_path)
CheckNpmFile ==
    /\ job.kind = "none" /\ file # NoFile
    /\ job' = check_npm_file(file, registry)
    /\ UNCHANGED <<file, registry>>
    /\ UNCHANGED cmpVars
    /\ UNCHANGED lookupVars
    /\ UNCHANGED rpcVars
    /\ UNCHANGED laterVars

\* server.py: the tool analyze_dependencies(file_path, package_manager)
AnalyzeDependencies ==
    /\ job.kind = "none" /\ file # NoFile
    /\ \E package_manager \in PackageManagers :
          job' = analyze_dependencies(file, package_manager, registry)
    /\ UNCHANGED <<file, registry>>
    /\ UNCHANGED cmpVars
    /\ UNCHANGED lookupVars
    /\ UNCHANGED rpcVars
    /\ UNCHANGED laterVars

\* archive/dep_checker_mcp.py: DependencyChecker.check_python_file(file_path)
ArchiveCheckPythonFile ==
    /\ job.kind = "none" /\ file # NoFile
    /\ job' = archive_check_python_file(file, registry)
    /\ UNCHANGED <<file, registry>>
    /\ UNCHANGED cmpVars
    /\ UNCHANGED lookupVars
    /\ UNCHANGED rpcVars
    /\ UNCHANGED laterVars

NextBatch ==
    \/ CheckPythonFile
    \/ CheckNpmFile
    \/ AnalyzeDependencies
    \/ ArchiveCheckPythonFile

SpecBatch == InitBatch /\ [][NextBatch]_vars

(***************************************************************************)
(* DependencyChecker.run_mypy and run_npm_audit                            *)
(***************************************************************************)
\* proc is how the subprocess ends: whether it could be started, its return
\* code and what it wrote to stdout ("" nothing, "text", "json")
run_mypy(f, proc) ==
    LET op == "run_mypy"
        fail(cause) ==
            McpError(op, TOOL_EXECUTION_ERROR, <<"Error running mypy: ">> \o cause)
    IN  IF ~f.exists THEN fail(<<"File or directory not found: ">> \o f.path)
        ELSE IF ~proc.starts THEN fail(<<"[Errno 2] No such file or directory: 'mypy'">>)
        ELSE Returned(op, [success |-> proc.returncode = 0,
                           issues |-> IF proc.stdout = "text" THEN <<"issue">> ELSE <<>>,
                           exit_code |-> proc.returncode])

run_npm_audit(f, proc) ==
    LET op == "run_npm_audit"
        fail(cause) ==
            McpError(op, TOOL_EXECUTION_ERROR, <<"Error running npm audit: ">> \o cause)
    IN  IF ~f.exists THEN fail(<<"File not found: ">> \o f.path)
        ELSE IF ~proc.starts THEN fail(<<"[Errno 2] No such file or directory: 'npm'">>)
        ELSE IF proc.stdout = "" THEN fail(<<"No output from npm audit: ">>)
        ELSE IF proc.stdout = "text" THEN fail(<<"JSONDecodeError">>)
        ELSE Returned(op, [success |-> proc.returncode = 0,
                           vulnerabilities |-> <<>>, metadata |-> <<>>,
                           exit_code |-> proc.returncode])

(***************************************************************************)
(* api/routes.py: call_tool, and the handler of McpError the application   *)
(* installs (__main__.py)                                                  *)
(***************************************************************************)
INTERNAL_ERROR == "internal_error"
INVALID_REQUEST == "invalid_request"
TOOL_NOT_FOUND == "tool_not_found"

\* d.get(key): None for a key the object does not hold
GetOrNone(v) == IF v = Missing THEN None ELSE v

\* The file at file_path: the file on disk if that is its path, else none
FileAt(file_path, f) ==
    IF file_path = f.path THEN f
    ELSE [exists |-> FALSE, path |-> file_path, lines |-> <<>>,
          toml |-> NoToml, json |-> NoJson]

\* What the try block of call_tool comes to: the outcome of the checker
\* operation with the operations that were called, or an error raised
\* before any was
Invoked(op, r) ==
    [kind |-> r.kind, value |-> r.value, error |-> r.error, calls |-> <<op>>]
Refused(code, message) ==
    [kind |-> "raise", value |-> NoValue,
     error |-> [code |-> code, message |-> message], calls |-> <<>>]
Crashed(message) ==
    [kind |-> "exception", value |-> NoValue,
     error |-> [code |-> "", message |-> message], calls |-> <<>>]

\* if not package_name: raise McpError(ErrorCode.INVALID_PARAMS, ...)
NoPackageName(parameters) == ~Truthy(GetOrNone(parameters.package_name))
MissingPackageName == Refused(INVALID_PARAMS, <<"Missing package_name parameter">>)

\* if not file_path: raise McpError(ErrorCode.INVALID_PARAMS, ...)
NoFilePath(parameters) == ~Truthy(GetOrNone(parameters.file_path))
MissingFilePath == Refused(INVALID_PARAMS, <<"Missing file_path parameter">>)

\* The branch of a known tool: its parameter is read and checked, then the
\* operation of the checker is awaited
ToolBranch(tool_name, parameters, f, reg, proc) ==
    CASE tool_name = <<"mcp_check_python_package">> ->
           IF NoPackageName(parameters) THEN MissingPackageName
           ELSE Invoked("check_python_package",
                        check_python_package(parameters.package_name,
                                             GetOrNone(parameters.version),
                                             PypiOf(reg, parameters.package_name)))
      [] tool_name = <<"mcp_check_npm_package">> ->
           IF NoPackageName(parameters) THEN MissingPackageName
           ELSE Invoked("check_npm_package",
                        check_npm_package(parameters.package_name,
                                          GetOrNone(parameters.version),
                                          NpmOf(reg, parameters.package_name)))
      [] tool_name = <<"mcp_check_python_file">> ->
           IF NoFilePath(parameters) THEN MissingFilePath
           ELSE Invoked("check_python_file",
                        check_python_file(FileAt(parameters.file_path, f), reg))
      [] tool_name = <<"mcp_check_npm_file">> ->
           IF NoFilePath(parameters) THEN MissingFilePath
           ELSE Invoked("check_npm_file",
                        check_npm_file(FileAt(parameters.file_path, f), reg))
      [] tool_name = <<"mcp_run_mypy">> ->
           IF NoFilePath(parameters) THEN MissingFilePath
           ELSE Invoked("run_mypy", run_mypy(FileAt(parameters.file_path, f), proc))
      [] tool_name = <<"mcp_run_npm_audit">> ->
           IF NoFilePath(parameters) THEN MissingFilePath
           ELSE Invoked("run_npm_audit",
                        run_npm_audit(FileAt(parameters.file_path, f), proc))

KnownTools ==
    {<<"mcp_check_python_package">>, <<"mcp_check_npm_package">>,
     <<"mcp_check_python_file">>, <<"mcp_check_npm_file">>,
     <<"mcp_run_mypy">>, <<"mcp_run_npm_audit">>}

\* The if / elif chain over tool_name; parameters.get raises AttributeError
\* when "parameters" is no object
Dispatch(tool_name, parameters, f, reg, proc) ==
    IF tool_name \notin KnownTools
      THEN Refused(TOOL_NOT_FOUND, <<"Tool not found: ">> \o tool_name)
    ELSE IF ~parameters.dict THEN Crashed(AttributeErrorOf("get"))
    ELSE ToolBranch(tool_name, parameters, f, reg, proc)

\* return {"id": request_id, "result": result}
ResultBody(request_id, r) ==
    [kind |-> "returned", status |-> 200, id |-> request_id, result |-> r.value,
     error |-> NoError, calls |-> r.calls]

\* return {"id": request_id, "error": {"code": ..., "message": ...}}
ErrorBody(request_id, code, message, calls) ==
    [kind |-> "returned", status |-> 200, id |-> request_id, result |-> NoValue,
     error |-> [code |-> code, message |-> message], calls |-> calls]

\* An McpError that leaves call_tool: mcp_error_handler answers it with
\* status 400 and {"error": {"code": ..., "message": ...}}, a body without id
RaisedOut(code, message) ==
    [kind |-> "raised", status |-> 400, id |-> Missing, result |-> NoValue,
     error |-> [code |-> code, message |-> message], calls |-> <<>>]

\* call_tool(request): data is the decoded body, an object
call_tool(data, f, reg, proc) ==
    LET request_id == IF data.id = Missing THEN <<"uuid4">> ELSE data.id
        tool_name == GetOrNone(data.name)
        answered(r) ==
            IF r.kind = "return" THEN ResultBody(request_id, r)
            ELSE IF r.kind = "raise"
              THEN ErrorBody(request_id, r.error.code, r.error.message, r.calls)
            ELSE ErrorBody(request_id, INTERNAL_ERROR,
                           <<"Internal server error: ">> \o r.error.message, r.calls)
    IN  IF ~Truthy(tool_name)
          THEN RaisedOut(INVALID_REQUEST, <<"Missing tool name">>)
        ELSE answered(Dispatch(tool_name, data.parameters, f, reg, proc))

(***************************************************************************)
(* call_tool as a state machine: a request, a file on disk and the         *)
(* registries' answers are drawn, and call_tool handles the request.       *)
(***************************************************************************)
\* "name" of the request: a tool, an unknown tool, "", null, or no key
RequestNames == KnownTools \cup {<<"invalid_tool">>, <<>>, None, Missing}

RequestIds == {<<"r1">>, Missing}

\* "parameters" of the request: an object (an absent key reads as {}), or a
\* value that is no object
RequestParameters ==
    [dict : {TRUE},
     package_name : {Missing, <<>>, <<"a">>},
     version : {Missing, <<"1">>},
     file_path : {Missing, <<>>, <<"requirements", ".txt">>, <<"package", ".json">>}]
      \cup {[dict |-> FALSE, package_name |-> Missing, version |-> Missing,
             file_path |-> Missing]}

CallRequests == [id : RequestIds, name : RequestNames, parameters : RequestParameters]

\* The file on disk: none, a requirements file or a package.json
DiskFiles ==
    MissingFiles
      \cup {TextFile(<<"requirements", ".txt">>, <<<<"a", "=", "=", "1">>>>),
            JsonFile(JsonObject(Object(<<Entry(<<"a">>, <<"^", "1">>)>>), AbsentKey))}

DiskRegistries == {reg \in Registries : reg[<<"b">>] = "good"}

Procs == [starts : BOOLEAN, returncode : {0, 1}, stdout : {"", "text", "json"}]

InitDispatch ==
    /\ CompareIdle
    /\ LookupIdle
    /\ LaterIdle
    /\ file \in DiskFiles
    /\ registry \in DiskRegistries
    /\ job = NoJob
    /\ request \in CallRequests
    /\ response = NoResponse

\* POST /mcp/call_tool
CallTool ==
    /\ response.kind = "none" /\ request # NoCall
    /\ \E proc \in Procs : response' = call_tool(request, file, registry, proc)
    /\ UNCHANGED request
    /\ UNCHANGED cmpVars
    /\ UNCHANGED lookupVars
    /\ UNCHANGED batchVars
    /\ UNCHANGED laterVars

NextDispatch == CallTool

SpecDispatch == InitDispatch /\ [][NextDispatch]_vars

(***************************************************************************)
(* _compare_versions over three versions: the relation "is outdated        *)
(* relative to" between each two of them.                                  *)
(***************************************************************************)
\* most characters of the three versions together
MaxChainTotal == 5

\* Three raw strings, each of at most MaxLen characters
Chains ==
    UNION {StringsOfLen(n[1]) \X StringsOfLen(n[2]) \X StringsOfLen(n[3]) :
             n \in {t \in (0..MaxLen) \X (0..MaxLen) \X (0..MaxLen) :
                      t[1] + t[2] + t[3] <= MaxChainTotal}}

InitOrder ==
    /\ CompareIdle
    /\ ret = NotCalled
    /\ LookupIdle
    /\ BatchIdle
    /\ RpcIdle
    /\ HistIdle
    /\ QueueIdle
    /\ StreamIdle
    /\ chain \in Chains
    /\ verdict = [kind |-> "none"]

\* The calls _compare_versions(a, b), (b, c), (a, c), (b, a) and (a, a) of
\* the three versions a, b, c
CompareChain ==
    /\ verdict.kind = "none"
    /\ verdict' = [kind |-> "compared",
                   ab |-> _compare_versions(chain[1], chain[2]),
                   bc |-> _compare_versions(chain[2], chain[3]),
                   ac |-> _compare_versions(chain[1], chain[3]),
                   ba |-> _compare_versions(chain[2], chain[1]),
                   aa |-> _compare_versions(chain[1], chain[1])]
    /\ UNCHANGED chain
    /\ UNCHANGED <<coreVars, histVars, queueVars, streamVars>>

NextOrder == CompareChain

SpecOrder == InitOrder /\ [][NextOrder]_vars

(***************************************************************************)
(* HistoryService: the SQLite store of queries and their responses.        *)
(*                                                                         *)
(* A table is the sequence of its rows in rowid order. A date and time is  *)
(* a day and an hour of one digit each; its text keeps the layout of the   *)
(* real one, the date, one separator character, the time.                  *)
(***************************************************************************)
\* most calls of save_query
MaxSaves == 3
\* the last day of the clock
MaxDay == 2
\* the last hour of a day
MaxHour == 1

Days == 1..MaxDay
Hours == 0..MaxHour
\* datetime(...): the day and the hour
Datetimes == Days \X Hours

\* SQLite's CURRENT_TIMESTAMP: 'YYYY-MM-DD HH:MM:SS', a blank between date
\* and time
CURRENT_TIMESTAMP(now) == StrNat(now[1]) \o <<" ">> \o StrNat(now[2])

\* datetime.isoformat(): 'YYYY-MM-DDTHH:MM:SS', a T between date and time
isoformat(d) == StrNat(d[1]) \o <<"T">> \o StrNat(d[2])

\* datetime.fromisoformat(text), which takes any separator character
fromisoformat(text) == <<DigitVal(text[1]), DigitVal(text[3])>>

\* json.dumps(metadata) if metadata else None
MetadataText(metadata) == IF Truthy(metadata) THEN <<"json">> \o metadata ELSE None

\* The rows of a table that satisfy Keep, in rowid order
RECURSIVE RowsFrom(_, _)
RowsFrom(rows, keep) ==
    IF rows = <<>> THEN <<>>
    ELSE (IF rows[1].id \in keep THEN <<rows[1]>> ELSE <<>>)
           \o RowsFrom(Tail(rows), keep)

\* The state of the database file
Database(q, r, seq) == [queries |-> q, responses |-> r, sequence |-> seq]

\* HistoryService.save_query: the row of the query, the row of the response
\* when a response or an error message is given, and the id of the query.
\* AUTOINCREMENT gives each table ids above every id it ever gave.
save_query(query, query_type, response_text, success, error_message, metadata, db, now) ==
    LET query_id == db.sequence.queries + 1
        row == [id |-> query_id, query |-> query, query_type |-> query_type,
                timestamp |-> CURRENT_TIMESTAMP(now),
                metadata |-> MetadataText(metadata)]
        answer == [id |-> db.sequence.responses + 1, query_id |-> query_id,
                   response |-> response_text, success |-> success,
                   error_message |-> error_message,
                   metadata |-> MetadataText(metadata)]
        answered == response_text # None \/ error_message # None
    IN  [db |-> Database(Append(db.queries, row),
                         IF answered THEN Append(db.responses, answer)
                         ELSE db.responses,
                         [queries |-> query_id,
                          responses |-> IF answered THEN answer.id
                                        ELSE db.sequence.responses]),
         value |-> query_id]

\* WHERE timestamp < ?: SQLite compares the two texts byte by byte
TimestampBefore(row, text) == StrLess(row.timestamp, text)

\* clear_history that deletes the rows of queries alone
clear_history_queries_only(older_than, db) ==
    LET old == IF older_than = None THEN {db.queries[i].id : i \in DOMAIN db.queries}
               ELSE {db.queries[i].id : i \in
                       {j \in DOMAIN db.queries :
                          TimestampBefore(db.queries[j], isoformat(older_than))}}
        kept == {db.queries[i].id : i \in DOMAIN db.queries} \ old
    IN  [db |-> Database(RowsFrom(db.queries, kept), db.responses, db.sequence),
         value |-> Cardinality(old)]

\* HistoryService.clear_history: with older_than, the responses of the
\* queries stamped before its isoformat() text and then these queries; with
\* None, every row of both tables. The value is the rowcount of the last
\* statement, the number of queries deleted.
clear_history(older_than, db) ==
    LET ids == {db.queries[i].id : i \in DOMAIN db.queries}
        old == IF older_than = None THEN ids
               ELSE {db.queries[i].id : i \in
                       {j \in DOMAIN db.queries :
                          TimestampBefore(db.queries[j], isoformat(older_than))}}
        answers == {db.responses[i].id : i \in
                      {j \in DOMAIN db.responses : db.responses[j].query_id \notin old}}
    IN  [db |-> Database(RowsFrom(db.queries, ids \ old),
                         IF older_than = None THEN <<>>
                         ELSE RowsFrom(db.responses, answers),
                         db.sequence),
         value |-> Cardinality(old)]

\* None, where a HistoryEntry is expected
NoEntry == [none |-> TRUE]

\* HistoryEntry(...)
HistoryEntry(id, query, query_type, timestamp, response_text, success, error_message) ==
    [id |-> id, query |-> query, query_type |-> query_type,
     timestamp |-> timestamp, response |-> response_text, success |-> success,
     error_message |-> error_message]

\* HistoryService.get_entry_by_id: the query of this id LEFT JOINed with its
\* response; without a response row the columns of the response are NULL,
\* and a NULL success is read as True. None when no query has the id.
get_entry_by_id(entry_id, db) ==
    LET found == {i \in DOMAIN db.queries : db.queries[i].id = entry_id}
        q == db.queries[CHOOSE i \in found : TRUE]
        joined == {i \in DOMAIN db.responses : db.responses[i].query_id = entry_id}
        r == db.responses[CHOOSE i \in joined : \A j \in joined : i <= j]
    IN  IF found = {} THEN NoEntry
        ELSE IF joined = {}
          THEN HistoryEntry(q.id, q.query, q.query_type, fromisoformat(q.timestamp),
                            None, TRUE, None)
        ELSE HistoryEntry(q.id, q.query, q.query_type, fromisoformat(q.timestamp),
                          r.response, r.success, r.error_message)

(***************************************************************************)
(* The history store as a state machine: calls of save_query,              *)
(* clear_history and get_entry_by_id, and the passing of time.             *)
(***************************************************************************)
\* The calls of save_query: a query saved before its answer is known, one
\* answered, one answered with failures, one that failed with a message, and
\* one that failed with neither response nor message
Saving(response_text, success, error_message, metadata) ==
    [query |-> <<"check requests --pip">>, query_type |-> <<"check">>,
     response |-> response_text, success |-> success,
     error_message |-> error_message, metadata |-> metadata]

SaveArguments ==
    {Saving(None, TRUE, None, None),
     Saving(<<"[]">>, TRUE, None, <<"{}">>),
     Saving(<<"[]">>, FALSE, None, None),
     Saving(None, FALSE, <<"boom">>, None),
     Saving(None, FALSE, None, None)}

InitHistory ==
    /\ CompareIdle
    /\ LookupIdle
    /\ BatchIdle
    /\ RpcIdle
    /\ QueueIdle
    /\ StreamIdle
    /\ OrderIdle
    /\ HistIdle

TheDatabase == Database(queries, responses, sequence)

\* One call of save_query; saved keeps what the caller gave and was given
SaveQuery ==
    /\ Len(saved) < MaxSaves
    /\ \E a \in SaveArguments :
         LET done == save_query(a.query, a.query_type, a.response, a.success,
                                a.error_message, a.metadata, TheDatabase, clock)
         IN  /\ queries' = done.db.queries
             /\ responses' = done.db.responses
             /\ sequence' = done.db.sequence
             /\ saved' = Append(saved, [id |-> done.value, given |-> a, at |-> clock])
             /\ entry' = [kind |-> "saved", value |-> done.value]
    /\ UNCHANGED clock
    /\ UNCHANGED <<coreVars, queueVars, streamVars, orderVars>>

\* One call of clear_history
ClearHistory ==
    /\ \E older_than \in Datetimes \cup {None} :
         LET done == clear_history(older_than, TheDatabase)
         IN  /\ queries' = done.db.queries
             /\ responses' = done.db.responses
             /\ sequence' = done.db.sequence
             /\ entry' = [kind |-> "cleared", older_than |-> older_than,
                          value |-> done.value]
    /\ UNCHANGED <<clock, saved>>
    /\ UNCHANGED <<coreVars, queueVars, streamVars, orderVars>>

\* One call of get_entry_by_id, of an id given before or not
GetEntryById ==
    /\ \E entry_id \in 1..(MaxSaves + 1) :
         entry' = [kind |-> "got", entry_id |-> entry_id,
                   value |-> get_entry_by_id(entry_id, TheDatabase)]
    /\ UNCHANGED <<queries, responses, sequence, clock, saved>>
    /\ UNCHANGED <<coreVars, queueVars, streamVars, orderVars>>

\* An hour passes
Tick ==
    /\ clock # <<MaxDay, MaxHour>>
    /\ clock' = IF clock[2] < MaxHour THEN <<clock[1], clock[2] + 1>>
                ELSE <<clock[1] + 1, 0>>
    /\ UNCHANGED <<queries, responses, sequence, saved, entry>>
    /\ UNCHANGED <<coreVars, queueVars, streamVars, orderVars>>

NextHistory ==
    \/ SaveQuery
    \/ ClearHistory
    \/ GetEntryById
    \/ Tick

SpecHistory == InitHistory /\ [][NextHistory]_vars

(***************************************************************************)
(* app.py: the queue of batch jobs. POST /queue makes a job and schedules  *)
(* process_batch_job, GET /queue/{job_id} reads the job table.             *)
(*                                                                         *)
(* The job table is the sequence of its jobs, a job id the place of the    *)
(* job in it. A background task runs without interruption from one await   *)
(* to the next: of a lookup, or of the sleep after a result. Its position  *)
(* is the await it is suspended at, the index i of the loop, the list      *)
(* results of the task, and whether job["results"] is that same list.      *)
(***************************************************************************)
\* most jobs queued
MaxJobs == 2
\* most dependencies of one request
MaxDeps == 2

DependencyNames == <<<<"a">>, <<"b">>, <<"c">>, <<"d">>>>

\* request.dependencies: lists of at most MaxDeps package names, each list
\* the beginning of the next
DependencyLists == {SubSeq(DependencyNames, 1, n) : n \in 0..MaxDeps}

ManagerNames == {"pip", "npm", "cargo"}

\* package_manager in ["pip", "poetry"], or == "npm"
Supported(package_manager) == package_manager \in {"pip", "poetry", "npm"}

\* {"name": dep, "error": "Unsupported package manager", "success": False}
Unsupported(dep) == ErrorDict(dep, <<"Unsupported package manager">>)

\* What a lookup of server.py returns: the record of the package, or the
\* dict of its error
LookupResults(dep) ==
    {[name |-> dep, success |-> TRUE],
     ErrorDict(dep, <<"Package not found (status: 404)">>)}

\* str(e) of an exception that leaves a lookup
LookupErrors == {<<"ConnectError">>}

\* queue_analysis: the job as it is put in the table
NewJob(dependencies, package_manager) ==
    [status |-> "queued", dependencies |-> dependencies,
     package_manager |-> package_manager, results |-> <<>>, progress |-> 0,
     total |-> Len(dependencies), stamps |-> {"created_at"}]

\* background_tasks.add_task(process_batch_job, job_id)
NewTask == [pc |-> "scheduled", i |-> 0, results |-> <<>>, shared |-> FALSE]

Running(j, t) == [job |-> j, task |-> t]

\* results.append(result); job["progress"] = i + 1; job["results"] = results;
\* await asyncio.sleep(0.1)
AfterResult(j, t, result) ==
    LET results == Append(t.results, result)
    IN  Running([j EXCEPT !.progress = t.i + 1, !.results = results],
                [t EXCEPT !.results = results, !.shared = TRUE, !.pc = "sleep"])

\* Resume that writes a status of its own when the job is done
Resume_done(j, t) ==
    IF t.i >= Len(j.dependencies)
      THEN Running([j EXCEPT !.status = "done", !.results = t.results],
                   [t EXCEPT !.pc = "done"])
    ELSE IF Supported(j.package_manager)
      THEN Running(j, [t EXCEPT !.pc = "lookup"])
    ELSE AfterResult(j, t, Unsupported(j.dependencies[t.i + 1]))

\* The loop from the index t.i on, up to the next await: the lookup of a
\* supported manager or the sleep after the dict of an unsupported one; after
\* the last dependency, the completion of the job
Resume(j, t) ==
    IF t.i >= Len(j.dependencies)
      THEN Running([j EXCEPT !.status = "completed", !.results = t.results,
                             !.stamps = @ \cup {"completed_at"}],
                   [t EXCEPT !.pc = "done"])
    ELSE IF Supported(j.package_manager)
      THEN Running(j, [t EXCEPT !.pc = "lookup"])
    ELSE AfterResult(j, t, Unsupported(j.dependencies[t.i + 1]))

\* process_batch_job, from its call to its first await
Begin(j, t) ==
    Resume([j EXCEPT !.status = "processing", !.stamps = @ \cup {"started_at"}],
           [t EXCEPT !.i = 0, !.results = <<>>, !.shared = FALSE])

\* An exception that is logged and leaves no entry
AfterRaise_dropped(j, t, e) == Resume(j, [t EXCEPT !.i = @ + 1])

\* An exception that nothing catches ends the task where it is
AfterRaise_uncaught(j, t, e) == Running(j, [t EXCEPT !.pc = "done"])

\* except Exception as e: results.append({"name": dep, "error": str(e),
\* "success": False}), seen in the job when job["results"] is that list, and
\* the loop goes on with the next dependency
AfterRaise(j, t, e) ==
    LET results == Append(t.results, ErrorDict(j.dependencies[t.i + 1], e))
    IN  Resume([j EXCEPT !.results = IF t.shared THEN results ELSE @],
               [t EXCEPT !.results = results, !.i = @ + 1])

\* The sleep ends and the loop goes on with the next dependency
AfterSleep(j, t) == Resume(j, [t EXCEPT !.i = @ + 1])

\* get_job_status: the job, or 404 for an id that is not in the table
get_job_status(job_id, table) ==
    IF job_id \notin DOMAIN table
    THEN [kind |-> "HTTPException", status_code |-> 404, job_id |-> job_id]
    ELSE [kind |-> "job", job_id |-> job_id, body |-> table[job_id]]

(***************************************************************************)
(* The queue as a state machine.                                           *)
(***************************************************************************)
InitQueue ==
    /\ CompareIdle
    /\ LookupIdle
    /\ BatchIdle
    /\ RpcIdle
    /\ HistIdle
    /\ StreamIdle
    /\ OrderIdle
    /\ QueueIdle

\* POST /queue
QueueAnalysis ==
    /\ Len(jobs) < MaxJobs
    /\ \E dependencies \in DependencyLists, package_manager \in ManagerNames :
         jobs' = Append(jobs, NewJob(dependencies, package_manager))
    /\ tasks' = Append(tasks, NewTask)
    /\ UNCHANGED polled
    /\ UNCHANGED <<coreVars, histVars, streamVars, orderVars>>

\* The job and its task become what a step of the task made of them
Becomes(job_id, r) ==
    /\ jobs' = [jobs EXCEPT ![job_id] = r.job]
    /\ tasks' = [tasks EXCEPT ![job_id] = r.task]
    /\ UNCHANGED polled
    /\ UNCHANGED <<coreVars, histVars, streamVars, orderVars>>

\* The event loop starts the background task of a job
ProcessBatchJob(job_id) ==
    /\ job_id \in DOMAIN tasks
    /\ tasks[job_id].pc = "scheduled"
    /\ Becomes(job_id, Begin(jobs[job_id], tasks[job_id]))

\* The lookup a task awaits returns
LookupReturns(job_id) ==
    /\ job_id \in DOMAIN tasks
    /\ tasks[job_id].pc = "lookup"
    /\ \E result \in LookupResults(jobs[job_id].dependencies[tasks[job_id].i + 1]) :
         Becomes(job_id, AfterResult(jobs[job_id], tasks[job_id], result))

\* The lookup a task awaits raises
LookupRaises(job_id) ==
    /\ job_id \in DOMAIN tasks
    /\ tasks[job_id].pc = "lookup"
    /\ \E e \in LookupErrors :
         Becomes(job_id, AfterRaise(jobs[job_id], tasks[job_id], e))

\* The sleep a task awaits ends
SleepEnds(job_id) ==
    /\ job_id \in DOMAIN tasks
    /\ tasks[job_id].pc = "sleep"
    /\ Becomes(job_id, AfterSleep(jobs[job_id], tasks[job_id]))

\* GET /queue/{job_id}, of an id given by POST /queue or not
GetJobStatus ==
    /\ \E job_id \in 1..(MaxJobs + 1) : polled' = get_job_status(job_id, jobs)
    /\ UNCHANGED <<jobs, tasks>>
    /\ UNCHANGED <<coreVars, histVars, streamVars, orderVars>>

\* A step of the background task of a job
TaskStep(job_id) ==
    \/ ProcessBatchJob(job_id)
    \/ LookupReturns(job_id)
    \/ LookupRaises(job_id)
    \/ SleepEnds(job_id)

NextQueue ==
    \/ QueueAnalysis
    \/ \E job_id \in 1..MaxJobs : TaskStep(job_id)
    \/ GetJobStatus

SpecQueue == InitQueue /\ [][NextQueue]_vars

\* The event loop runs every task that can run: a scheduled task is started,
\* an awaited lookup returns or raises, an awaited sleep ends
SpecQueueLive ==
    /\ SpecQueue
    /\ \A job_id \in 1..MaxJobs : WF_vars(TaskStep(job_id))

(***************************************************************************)
(* app.py: analyze_stream, the SSE stream of POST /analyze.                *)
(*                                                                         *)
(* The generator event_stream runs from one yield or await to the next;    *)
(* its position is where it is suspended and the index i of its loop.      *)
(***************************************************************************)
\* request.dependencies of /analyze: lists of at most MaxDeps names
StreamLists == UNION {[1..n -> {<<"a">>, <<"b">>}] : n \in 0..MaxDeps}

StreamManagers == {"pip", "poetry", "npm", "cargo"}

\* The events of the stream, data decoded
StartEvent(total) == [event |-> "start", total |-> total]
ResultEvent(i, dep, result) ==
    [event |-> "result", index |-> i, package |-> dep, result |-> result]
ErrorEvent(i, dep, e) ==
    [event |-> "error", index |-> i, package |-> dep, error |-> e]
CompleteEvent == [event |-> "complete"]

\* The generator and what it has yielded
Yielded(s, emitted) == [stream |-> s, events |-> emitted]

\* An exception of a lookup that ends the stream with its error event
OnRaise_stream_error(s, emitted, e) ==
    Yielded([s EXCEPT !.pc = "done"],
            Append(emitted, ErrorEvent(s.i, s.dependencies[s.i + 1], e)))

\* except Exception as e: yield the error event of the index i, and the loop
\* goes on with the next dependency
OnRaise(s, emitted, e) ==
    Yielded([s EXCEPT !.i = @ + 1],
            Append(emitted, ErrorEvent(s.i, s.dependencies[s.i + 1], e)))

\* yield the result event of the index i, then await asyncio.sleep(0.1)
OnResult(s, emitted, result) ==
    Yielded([s EXCEPT !.pc = "sleep"],
            Append(emitted, ResultEvent(s.i, s.dependencies[s.i + 1], result)))

\* What the iteration of the index i gets without an exception: the return
\* of the lookup, or the dict of an unsupported manager
IterationResults(s) ==
    IF Supported(s.package_manager) THEN LookupResults(s.dependencies[s.i + 1])
    ELSE {Unsupported(s.dependencies[s.i + 1])}

(***************************************************************************)
(* The stream as a state machine.                                          *)
(***************************************************************************)
InitStream ==
    /\ CompareIdle
    /\ LookupIdle
    /\ BatchIdle
    /\ RpcIdle
    /\ HistIdle
    /\ QueueIdle
    /\ OrderIdle
    /\ StreamIdle

StreamFrame == UNCHANGED <<coreVars, histVars, queueVars, orderVars>>

\* POST /analyze: the response is made over the generator, not yet run
AnalyzeStream ==
    /\ stream.kind = "none"
    /\ \E dependencies \in StreamLists, package_manager \in StreamManagers :
         stream' = [kind |-> "stream", dependencies |-> dependencies,
                    package_manager |-> package_manager, pc |-> "begin", i |-> 0]
    /\ UNCHANGED events
    /\ StreamFrame

Streaming(pc) == stream.kind = "stream" /\ stream.pc = pc

\* yield the start event
EmitStart ==
    /\ Streaming("begin")
    /\ events' = Append(events, StartEvent(Len(stream.dependencies)))
    /\ stream' = [stream EXCEPT !.pc = "loop"]
    /\ StreamFrame

\* The iteration of the next dependency yields its result
EmitResult ==
    /\ Streaming("loop")
    /\ stream.i < Len(stream.dependencies)
    /\ \E result \in IterationResults(stream) :
         LET y == OnResult(stream, events, result)
         IN  stream' = y.stream /\ events' = y.events
    /\ StreamFrame

\* The lookup of the next dependency raises
EmitError ==
    /\ Streaming("loop")
    /\ stream.i < Len(stream.dependencies)
    /\ Supported(stream.package_manager)
    /\ \E e \in LookupErrors :
         LET y == OnRaise(stream, events, e)
         IN  stream' = y.stream /\ events' = y.events
    /\ StreamFrame

\* The sleep after a result ends
StreamSleepEnds ==
    /\ Streaming("sleep")
    /\ stream' = [stream EXCEPT !.pc = "loop", !.i = @ + 1]
    /\ UNCHANGED events
    /\ StreamFrame

\* After the last dependency: yield the complete event
EmitComplete ==
    /\ Streaming("loop")
    /\ stream.i >= Len(stream.dependencies)
    /\ events' = Append(events, CompleteEvent)
    /\ stream' = [stream EXCEPT !.pc = "done"]
    /\ StreamFrame

NextStream ==
    \/ AnalyzeStream
    \/ EmitStart
    \/ EmitResult
    \/ EmitError
    \/ StreamSleepEnds
    \/ EmitComplete

SpecStream == InitStream /\ [][NextStream]_vars

(***************************************************************************)
(* Properties of the comparator (checked under SpecCompare).               *)
(***************************************************************************)
Called == ret.kind # "none"

CurSplit == _split_version(current)
LatSplit == _split_version(latest)
\* the release comparison the call made
ReleaseCmp == _compare_release_versions(CurSplit[1], LatSplit[1])
ReleaseEqual == ReleaseCmp.exc = "" /\ ReleaseCmp.val = 0

\* the i-th component of tuple t, a missing one read as zero
At(t, i) == IF i <= Len(t) THEN t[i] ELSE 0
MaxOf(m, n) == IF m < n THEN n ELSE m

\* a < b once the shorter tuple is right-padded with zeros
PaddedLess(a, b) ==
    \E i \in 1..MaxOf(Len(a), Len(b)) :
        /\ \A j \in 1..(i - 1) : At(a, j) = At(b, j)
        /\ At(a, i) < At(b, i)

\* a < b as Python orders tuples: the first difference decides, and a proper
\* prefix is smaller
TupleLess(a, b) ==
    \/ \E i \in 1..Len(a) :
          /\ i <= Len(b)
          /\ \A j \in 1..(i - 1) : a[j] = b[j]
          /\ a[i] < b[i]
    \/ /\ Len(a) < Len(b)
       /\ \A j \in 1..Len(a) : a[j] = b[j]

\* b is a followed by one or more zero segments
ZeroExtension(a, b) ==
    /\ Len(b) > Len(a)
    /\ \A j \in 1..Len(b) : b[j] = At(a, j)

\* s sorts strictly before t in lexicographic order of code points
LexBefore(s, t) ==
    \E k \in 0..Len(s) :
        /\ k <= Len(t)
        /\ \A j \in 1..k : s[j] = t[j]
        /\ \/ (k = Len(s) /\ k < Len(t))
           \/ (k < Len(s) /\ k < Len(t) /\ Code(s[k + 1]) < Code(t[k + 1]))

\* C1: for every version string v, also a non-numeric tag, the call
\* _compare_versions(v, v) returns false and raises nothing.
C1_SameVersionNotOutdated ==
    (Called /\ current = latest) => ret = Return(FALSE)

\* a call on two identical tags that hold no digit and do not match the pattern
C1_Witness ==
    /\ current = latest
    /\ current = <<"a", "b">>
    /\ ret = Return(FALSE)

\* C2 (as stated): for numeric dotted versions whose integer tuples satisfy
\* a < b, _compare_versions(str(a), str(b)) is true and
\* _compare_versions(str(b), str(a)) is false.
C2_Original ==
    (Called /\ tupA # <<>>) =>
        /\ TupleLess(tupA, tupB) => ret = Return(TRUE)
        /\ TupleLess(tupB, tupA) => ret = Return(FALSE)

\* C2 (amended): for numeric dotted versions whose integer tuples satisfy
\* a < b after the shorter one is right-padded with zeros,
\* _compare_versions(str(a), str(b)) is true and
\* _compare_versions(str(b), str(a)) is false.
C2_PaddedOrder ==
    (Called /\ tupA # <<>>) =>
        /\ PaddedLess(tupA, tupB) => ret = Return(TRUE)
        /\ PaddedLess(tupB, tupA) => ret = Return(FALSE)

\* "2.1" against "10": tuples of different lengths, ordered by value (2 < 10)
\* where the strings order the other way
C2_Witness ==
    /\ tupA = <<2, 1>> /\ tupB = <<10>>
    /\ current = <<"2", ".", "1">> /\ latest = <<"1", "0">>
    /\ ret = Return(TRUE)

\* C3: when the release parts are numerically equal, a suffix on current and
\* none on latest makes current outdated, and no suffix on current with one
\* on latest makes it not outdated; so ("1-a", "1") and ("1.a", "1") are
\* true and ("1", "1-a") is false.
C3_SuffixAsymmetry ==
    Called =>
        /\ ReleaseEqual =>
              /\ (CurSplit[2] # <<>> /\ LatSplit[2] = <<>>) => ret = Return(TRUE)
              /\ (CurSplit[2] = <<>> /\ LatSplit[2] # <<>>) => ret = Return(FALSE)
        /\ (current = <<"1", "-", "a">> /\ latest = <<"1">>) => ret = Return(TRUE)
        /\ (current = <<"1", ".", "a">> /\ latest = <<"1">>) => ret = Return(TRUE)
        /\ (current = <<"1">> /\ latest = <<"1", "-", "a">>) => ret = Return(FALSE)

\* "1.a" against "1.": the suffix follows a dot, and latest ends in one
C3_Witness ==
    /\ current = <<"1", ".", "a">> /\ latest = <<"1", ".">>
    /\ CurSplit[2] = <<"a">> /\ LatSplit[2] = <<>>
    /\ ret = Return(TRUE)

C5_PaddingLaw ==
    (Called /\ tupA # <<>> /\ (ZeroExtension(tupA, tupB) \/ ZeroExtension(tupB, tupA)))
        => ret = Return(FALSE)

\* v extended by two zero segments, v the current version
C5_Witness ==
    /\ tupA # <<>> /\ ZeroExtension(tupA, tupB) /\ Len(tupB) = Len(tupA) + 2
    /\ tupA[1] = 10
    /\ ret = Return(FALSE)

\* C6: when the release parts are numerically unequal the result is true iff
\* current's component is the smaller one at the first differing component,
\* whatever the suffixes are.
C6_ReleaseDecides ==
    LET cp == ReleaseParts(CurSplit[1])
        lp == ReleaseParts(LatSplit[1])
        cv == [i \in 1..Len(cp) |-> cp[i].val]
        lv == [i \in 1..Len(lp) |-> lp[i].val]
        n  == MaxOf(Len(cv), Len(lv))
        differ == \E i \in 1..n : At(cv, i) # At(lv, i)
        first == CHOOSE i \in 1..n :
                    /\ At(cv, i) # At(lv, i)
                    /\ \A j \in 1..(i - 1) : At(cv, j) = At(lv, j)
    IN  (Called /\ differ) => ret = Return(At(cv, first) < At(lv, first))

\* current is older by its release although only latest carries a suffix
C6_Witness ==
    /\ CurSplit[2] = <<>> /\ LatSplit[2] # <<>>
    /\ ReleaseCmp.val = -1
    /\ ret = Return(TRUE)

\* C7: when the release parts are equal and both suffixes are non-empty,
\* current is outdated iff its suffix sorts strictly before latest's suffix
\* in lexicographic string order.
C7_SuffixOrder ==
    (Called /\ ReleaseEqual /\ CurSplit[2] # <<>> /\ LatSplit[2] # <<>>)
        => ret = Return(LexBefore(CurSplit[2], LatSplit[2]))

\* "1a" against "1-b": suffix "a" before suffix "b"
C7_Witness ==
    /\ current = <<"1", "a">> /\ latest = <<"1", "-", "b">>
    /\ ret = Return(TRUE)

(***************************************************************************)
(* Properties of the lookups (checked under SpecLookup).                   *)
(***************************************************************************)
\* The lookup has returned a record that reports versions
Reported ==
    /\ out.kind = "return"
    /\ "is_outdated" \in DOMAIN out.value

\* The caller supplied a version: the operations test the argument's truth,
\* so None and the empty string both count as no version
Supplied == Truthy(req.version)

\* current ranks strictly before latest under the comparator's ordering
RanksBefore(cur, lat) ==
    LET r == _compare_versions(cur, lat)
    IN  r.kind = "return" /\ r.val

\* C8: every lookup path that reports a package record (the two operations
\* of DependencyChecker and the two tools of server.py) sets is_outdated to
\* true exactly when current_version ranks strictly before latest_version
\* under the comparator's ordering.
C8_OutdatedIffRanksBefore ==
    (Reported /\ out.value.latest_version # None)
      => (out.value.is_outdated
            <=> RanksBefore(out.value.current_version, out.value.latest_version))

\* The tool check_npm_package reports a version newer than latest as outdated
C8_Witness ==
    /\ Reported
    /\ out.op = "server.check_npm_package"
    /\ out.value.current_version = <<"2">>
    /\ out.value.latest_version = <<"1">>
    /\ out.value.is_outdated

\* C9: in the record a lookup returns, current_version is the caller's
\* version when one is supplied and latest_version otherwise, and with no
\* version supplied is_outdated is false.
C9_CurrentVersion ==
    Reported =>
      IF Supplied
      THEN out.value.current_version = req.version
      ELSE /\ out.value.current_version = out.value.latest_version
           /\ ~out.value.is_outdated

\* A lookup with a version of its own, older than latest, has returned
C9_Witness ==
    /\ Reported
    /\ Supplied
    /\ out.value.current_version = req.version
    /\ out.value.current_version # out.value.latest_version
    /\ out.value.is_outdated

\* Reading the registry record fails: the request fails, or the body lacks a
\* required key (info, info.version, releases; dist-tags, dist-tags.latest)
ReadFails ==
    \/ raw.transport # "ok"
    \/ /\ raw.registry = "pypi"
       /\ (~raw.has_info \/ raw.version = Missing \/ ~raw.has_releases)
    \/ /\ raw.registry = "npm"
       /\ (raw.dist_tags # "present" \/ raw.latest = Missing)

\* The operations of DependencyChecker
CheckerOps == {"check_python_package", "check_npm_package"}

\* A raised McpError of code TOOL_EXECUTION_ERROR whose message holds the
\* package name and, after it, the cause
RaisedExecutionError ==
    /\ out.kind = "raise"
    /\ out.error.code = TOOL_EXECUTION_ERROR
    /\ \E k \in 1..Len(out.error.message) :
          /\ SubSeq(out.error.message, k, k + Len(req.package_name) - 1)
                = req.package_name
          /\ k + Len(req.package_name) < Len(out.error.message)

\* C10: any failure while reading the registry record makes
\* check_python_package / check_npm_package raise one McpError of code
\* TOOL_EXECUTION_ERROR whose message carries the package name and the cause;
\* a record with a blank latest_version is never returned.
C10_ReadFailureRaises ==
    (out.kind # "none" /\ out.op \in CheckerOps)
      => /\ ReadFails => RaisedExecutionError
         /\ out.kind = "return" => out.value.latest_version # <<>>

\* check_npm_package returns a record with a blank latest_version for a
\* body without dist-tags
C10_Witness ==
    /\ out.kind = "return"
    /\ out.op = "check_npm_package"
    /\ raw.dist_tags = "missing"
    /\ out.value.latest_version = <<>>

\* Every failed read of check_python_package ends in the McpError
C10_PythonReadFailureRaises ==
    (out.kind # "none" /\ out.op = "check_python_package" /\ ReadFails)
      => RaisedExecutionError

\* The lookup has returned a PackageInfo
ReturnedPackageInfo ==
    /\ out.kind = "return"
    /\ out.op \in CheckerOps

\* The advisory request fails: an exception, a status other than 200, or a
\* body that is not the expected object with a list of vulnerabilities
AdvisoryFails ==
    /\ raw.registry = "pypi"
    /\ raw.safety \in {"exception", "status_500", "bad_json", "not_dict", "null"}

\* The outcome of the lookup had the advisory request answered well
WithAdvisory == check_python_package(req.package_name, req.version, [raw EXCEPT !.safety = "ok"])

\* C11: if the advisory request of a lookup fails in any way (exception,
\* status other than 200, malformed body) the lookup still returns a
\* PackageInfo and its security_issues is the empty sequence; in every
\* returned PackageInfo security_issues is a sequence, never None.
C11_AdvisoryFailureGivesEmpty ==
    /\ ReturnedPackageInfo => out.value.security_issues # None
    /\ (out.op = "check_python_package" /\ AdvisoryFails)
         => /\ out.kind = WithAdvisory.kind
            /\ out.kind = "return" => out.value.security_issues = <<>>

\* A body whose vulnerabilities is null ends in a PackageInfo whose
\* security_issues is None
C11_Witness ==
    /\ ReturnedPackageInfo
    /\ raw.registry = "pypi"
    /\ raw.safety = "null"
    /\ out.value.security_issues = None

\* When the advisory request raises, answers with another status than 200 or
\* with a body that is no JSON object, the lookup ends as it would have, and
\* a returned PackageInfo has no security issues
C11_UnreachableAdvisoryGivesEmpty ==
    (/\ out.op = "check_python_package"
     /\ raw.safety \in {"exception", "status_500", "bad_json", "not_dict"})
      => /\ out.kind = WithAdvisory.kind
         /\ out.kind = "return" => out.value.security_issues = <<>>

(***************************************************************************)
(* Properties of the batch operations (checked under SpecBatch).           *)
(***************************************************************************)
BatchRan == job.kind # "none"

\* The packages the operation of the job finds in the file, in the order of
\* its loop
Planned ==
    CASE job.op = "check_python_file" ->
           IF EndsWith(file.path, ".txt") THEN RequirementsOf(file.lines)
           ELSE IF EndsWith(file.path, ".toml") THEN TomlDependencies(file.toml)
           ELSE <<>>
      [] job.op = "check_npm_file" ->
           LET dependencies ==
                 DictUpdate(DictUpdate(<<>>, OrEmpty(file.json.dependencies)),
                            OrEmpty(file.json.devDependencies))
               IsStr(e) == e.version # NonStr
               lookedUp == SelectSeq(dependencies, IsStr)
           IN  [i \in 1..Len(lookedUp) |->
                  Dependency(lookedUp[i].name,
                             IF ~Truthy(lookedUp[i].version) THEN None
                             ELSE FirstVersionRun(lookedUp[i].version))]
      [] job.op = "analyze_dependencies" ->
           LET names ==
                 IF job.summary.package_manager = "pip"
                      /\ (EndsWith(file.path, ".txt") \/ EndsWith(file.path, ".in"))
                   THEN NamesOf(file.lines)
                 ELSE IF job.summary.package_manager = "npm"
                           /\ EndsWith(file.path, ".json")
                   THEN Keys(OrEmpty(file.json.dependencies))
                          \o Keys(OrEmpty(file.json.devDependencies))
                 ELSE <<>>
           IN  [i \in 1..Len(names) |-> Dependency(names[i], None)]
      [] job.op = "archive.check_python_file" ->
           IF EndsWith(file.path, ".txt") THEN ArchiveRequirementsOf(file.lines)
           ELSE IF EndsWith(file.path, ".toml")
             THEN ArchiveTomlDependencies(file.lines, FALSE)
           ELSE <<>>

\* How the lookup of one package ends when the operation of the job makes it
Outcome(dep) ==
    CASE job.op = "check_python_file" ->
           check_python_package(dep.package_name, dep.version,
                                PypiOf(registry, dep.package_name))
      [] job.op = "check_npm_file" ->
           check_npm_package(dep.package_name, dep.version,
                             NpmOf(registry, dep.package_name))
      [] job.op = "archive.check_python_file" ->
           archive_check_python_package(dep.package_name, dep.version,
                                        PypiOf(registry, dep.package_name))
      [] job.op = "analyze_dependencies" ->
           IF job.summary.package_manager \in {"pip", "poetry"}
             THEN server_check_python_package(dep.package_name, None,
                                              PypiOf(registry, dep.package_name))
           ELSE IF job.summary.package_manager = "npm"
             THEN server_check_npm_package(dep.package_name, None,
                                           NpmOf(registry, dep.package_name))
           ELSE Returned("analyze_dependencies",
                         ErrorDict(dep.package_name, <<"Unsupported package manager">>))

\* The lookup gave the record of the package
Succeeded(dep) ==
    /\ Outcome(dep).kind = "return"
    /\ job.op = "analyze_dependencies" => Outcome(dep).value.success

SomeLookupFailed ==
    BatchRan /\ \E i \in 1..Len(job.lookups) : ~Succeeded(job.lookups[i])

\* C12: when the lookup of one package fails in a batch operation, the
\* operation still returns, it has made the lookup of every package of the
\* file, and the record of every package whose lookup succeeded is among
\* the records it returns.
C12_FailingLookupNeverAborts ==
    SomeLookupFailed =>
      /\ job.kind = "return"
      /\ job.lookups = Planned
      /\ \A i \in 1..Len(Planned) :
            Succeeded(Planned[i]) =>
              \E k \in 1..Len(job.value) : job.value[k] = Outcome(Planned[i]).value

\* check_python_file went on after a failed first lookup and returned the
\* record of the second package
C12_Witness ==
    /\ BatchRan
    /\ job.op = "check_python_file"
    /\ job.kind = "return"
    /\ Len(job.lookups) = 2
    /\ ~Succeeded(job.lookups[1])
    /\ Succeeded(job.lookups[2])
    /\ job.value = <<Outcome(job.lookups[2]).value>>

\* The lines of the file that list a package: not blank, no comment
ListsPackage(line) == Strip(line) # <<>> /\ Strip(line)[1] # "#"
Listed == SelectSeq(file.lines, ListsPackage)

\* A pin is a line name==version; PinAt is where its == stands
IsWord(w) == w # <<>> /\ \A i \in 1..Len(w) : w[i] \in NameChars
HasPinAt(line, k) == k < Len(line) /\ line[k] = "=" /\ line[k + 1] = "="
PinAt(line) == CHOOSE k \in 1..Len(line) : HasPinAt(line, k)
PinName(line) == Strip(SubSeq(line, 1, PinAt(line) - 1))
PinVersion(line) == Strip(SubSeq(line, PinAt(line) + 2, Len(line)))
IsPin(line) ==
    /\ \E k \in 1..Len(line) : HasPinAt(line, k)
    /\ IsWord(PinName(line))
    /\ IsWord(PinVersion(line))

\* A requirements file of pins was handled by check_python_file
PinsChecked ==
    /\ BatchRan
    /\ job.op \in {"check_python_file", "archive.check_python_file"}
    /\ file.exists
    /\ EndsWith(file.path, ".txt")
    /\ Listed # <<>>
    /\ \A i \in 1..Len(Listed) : IsPin(Listed[i])

\* The record belongs to the pin: its name and its pinned version
RecordOfPin(record, line) ==
    /\ record.name = PinName(line)
    /\ record.current_version = PinVersion(line)

\* The registry has a usable record of the package the line pins
PinFound(line) == Answer(registry, PinName(line)) = "good"
FoundPins == SelectSeq(Listed, PinFound)

\* C13 as stated: for a requirements file of N pinned packages,
\* check_python_file returns exactly N records, the i-th with the name and
\* the pinned version of the i-th listed package.
C13_OneRecordPerListedPackage ==
    PinsChecked =>
      /\ job.kind = "return"
      /\ Len(job.value) = Len(Listed)
      /\ \A i \in 1..Len(Listed) : RecordOfPin(job.value[i], Listed[i])

\* C13 amended: for a requirements file of N pinned packages,
\* check_python_file of services/checker.py returns one record for each
\* package whose lookup succeeds, in file order, with the name and the pinned
\* version of its package, so exactly N records when every lookup succeeds;
\* check_python_file of the archive returns exactly N records, the i-th with
\* the name and the pinned version of the i-th package.
C13_RecordsOfFoundPinsInOrder ==
    PinsChecked =>
      /\ job.kind = "return"
      /\ job.op = "check_python_file" =>
           /\ Len(job.value) = Len(FoundPins)
           /\ \A i \in 1..Len(FoundPins) : RecordOfPin(job.value[i], FoundPins[i])
      /\ job.op = "archive.check_python_file" =>
           /\ Len(job.value) = Len(Listed)
           /\ \A i \in 1..Len(Listed) : RecordOfPin(job.value[i], Listed[i])

\* Of three pinned packages a, b, a the lookup of b failed, and
\* check_python_file of services/checker.py returned the two records of a
C13_Witness ==
    /\ PinsChecked
    /\ job.op = "check_python_file"
    /\ Len(Listed) = 3
    /\ PinName(Listed[1]) = <<"a">> /\ PinName(Listed[2]) = <<"b">>
    /\ PinFound(Listed[1]) /\ ~PinFound(Listed[2]) /\ PinFound(Listed[3])
    /\ Len(job.value) = 2
    /\ job.value[2].name = <<"a">>

(***************************************************************************)
(* Properties of call_tool (checked under SpecDispatch).                   *)
(***************************************************************************)
Answered == response.kind # "none"

\* The id the answer has to carry: the request's, or the one generated for
\* a request without
RequestId == IF request.id = Missing THEN <<"uuid4">> ELSE request.id

NameGiven == Truthy(GetOrNone(request.name))

\* The answer is the body {id, error: {code, message}} with the request's id
ErrorInBody(code) ==
    /\ response.kind = "returned"
    /\ response.id = RequestId
    /\ response.error.code = code

\* C14: every MCP error of a call_tool request is reported in the response
\* body with the request's id and is not raised out of the handler: a missing
\* tool name as invalid_request, an unknown tool as tool_not_found, and the
\* other errors with their code.
C14_McpErrorsInBody ==
    Answered =>
      /\ response.kind = "returned"
      /\ response.id = RequestId
      /\ ~NameGiven => ErrorInBody(INVALID_REQUEST)
      /\ NameGiven /\ request.name \notin KnownTools => ErrorInBody(TOOL_NOT_FOUND)

\* A request with an id and no tool name was answered by an McpError raised
\* out of call_tool, and the answer carries no id
C14_Witness ==
    /\ Answered
    /\ request.id = <<"r1">>
    /\ request.name = Missing
    /\ response.kind = "raised"
    /\ response.error.code = INVALID_REQUEST
    /\ response.id = Missing

\* With a tool name in the request every error is reported in the body with
\* the request's id, an unknown tool as tool_not_found
C14_NamedRequestsAnsweredInBody ==
    Answered /\ NameGiven =>
      /\ response.kind = "returned"
      /\ response.id = RequestId
      /\ request.name \notin KnownTools => ErrorInBody(TOOL_NOT_FOUND)

\* The required parameter of the tool the request names
RequiredParameter ==
    IF request.name \in {<<"mcp_check_python_package">>, <<"mcp_check_npm_package">>}
    THEN request.parameters.package_name ELSE request.parameters.file_path

\* A known tool is called with its required parameter missing or empty
ParameterMissing ==
    /\ request.name \in KnownTools
    /\ request.parameters.dict
    /\ ~Truthy(GetOrNone(RequiredParameter))

\* The dispatch layer answers invalid_params exactly for a known tool whose
\* required parameter is missing or empty, and then calls no operation of the
\* checker; no operation of services/checker.py answers invalid_params
C15_DispatchRejectsBeforeChecker ==
    Answered =>
      /\ ParameterMissing => ErrorInBody(INVALID_PARAMS) /\ response.calls = <<>>
      /\ response.error.code = INVALID_PARAMS => ParameterMissing /\ response.calls = <<>>

C15_DispatchWitness ==
    /\ Answered
    /\ request.name = <<"mcp_check_python_file">>
    /\ request.parameters.file_path = <<>>
    /\ response.error.code = INVALID_PARAMS

(***************************************************************************)
(* C15 over the operations of the checker (checked under SpecBatch)        *)
(***************************************************************************)
\* C15: no operation of the checker, in services/checker.py or in
\* archive/dep_checker_mcp.py, raises invalid_params.
C15_CheckerNeverRaisesInvalidParams ==
    BatchRan /\ job.kind = "raise" => job.error.code # INVALID_PARAMS

\* check_python_file of the archive raised invalid_params for a file that
\* does not exist
C15_Witness ==
    /\ BatchRan
    /\ job.op = "archive.check_python_file"
    /\ ~file.exists
    /\ job.kind = "raise"
    /\ job.error.code = INVALID_PARAMS

\* The operations of services/checker.py raise tool_execution_error only
C15_ServicesRaiseExecutionError ==
    BatchRan /\ job.kind = "raise" /\ job.op # "archive.check_python_file"
      => job.error.code = TOOL_EXECUTION_ERROR

(***************************************************************************)
(* Properties of the optional fields of PackageInfo (checked under         *)
(* SpecLookup).                                                            *)
(***************************************************************************)
OptionalFields ==
    {"homepage", "description", "release_date", "documentation_url",
     "api_docs_url", "github_url"}

\* A lookup of PyPI returned its PackageInfo
ReturnedPypiInfo ==
    /\ out.kind = "return"
    /\ out.op = "check_python_package"

\* The registry gives a value for the key: the key is there, and its value
\* is neither null nor the empty string
Given(v) == v # Missing /\ Truthy(v)

\* C16: in every returned PackageInfo each of homepage, description,
\* release_date, documentation_url, api_docs_url and github_url is a
\* non-empty string or None; when the registry record gives no summary or
\* description, no release entry or a first file entry without upload_time,
\* the field is None and not the empty string.
C16_OptionalFieldsNoneOrNonEmpty ==
    ReturnedPackageInfo =>
      /\ \A field \in OptionalFields :
            out.value[field] = None \/ out.value[field] # <<>>
      /\ raw.registry = "pypi" /\ ~Given(raw.summary) => out.value.description = None
      /\ raw.registry = "pypi" /\ raw.release_info # "time"
           => out.value.release_date = None
      /\ raw.registry = "npm" /\ ~Given(raw.description) => out.value.description = None

\* A PyPI record whose summary is null gave a PackageInfo whose description
\* is the empty string
C16_Witness ==
    /\ ReturnedPypiInfo
    /\ raw.summary = None
    /\ out.value.description = <<>>

\* The fields that come from URLs are None or non-empty when the registry's
\* URLs are: homepage, documentation_url, api_docs_url and github_url of a
\* lookup of PyPI
C16_PypiUrlFieldsNoneOrNonEmpty ==
    ReturnedPypiInfo =>
      \A field \in {"homepage", "documentation_url"} : out.value[field] # <<>>

\* The categories of the scan of project_urls, the keywords of each and the
\* field of PackageInfo each sets
Categories == {"documentation", "api", "github"}

Keywords(category) ==
    CASE category = "documentation" -> {KwDocumentation, KwDocs}
      [] category = "api" -> {KwApi}
      [] category = "github" -> {KwGithub, KwSource, KwRepository}

FieldOf(category) ==
    CASE category = "documentation" -> "documentation_url"
      [] category = "api" -> "api_docs_url"
      [] category = "github" -> "github_url"

\* The label holds a keyword of the category, whatever the case of its letters
LabelMatches(label, category) ==
    \E kw \in Keywords(category) : Contains(Lower(label), kw)

\* The record's project_urls is a mapping, and the lookup returned
ScannedMapping ==
    /\ ReturnedPypiInfo
    /\ raw.project_urls # Missing
    /\ raw.project_urls # None

\* The places in the mapping of the labels that match the category
MatchesOf(category) ==
    {i \in 1..Len(raw.project_urls) : LabelMatches(raw.project_urls[i].label, category)}

FirstOf(S) == CHOOSE i \in S : \A j \in S : i <= j
LastOf(S) == CHOOSE i \in S : \A j \in S : j <= i

\* C17: when several labels of project_urls match the same category, the
\* URL of the category is that of the first matching label of the mapping.
C17_FirstMatchWins ==
    ScannedMapping =>
      \A category \in Categories :
         Cardinality(MatchesOf(category)) > 1 =>
            out.value[FieldOf(category)]
              = raw.project_urls[FirstOf(MatchesOf(category))].url

\* Of two labels of the documentation category with different URLs the
\* second gave documentation_url
C17_Witness ==
    /\ ScannedMapping
    /\ raw.project_urls = TwoDocs
    /\ out.value.documentation_url = TwoDocs[2].url
    /\ out.value.documentation_url # TwoDocs[1].url

\* The last matching label with a URL gives the URL of its category
C17_LastMatchWins ==
    ScannedMapping =>
      \A category \in Categories :
         /\ Cardinality(MatchesOf(category)) > 1
         /\ Truthy(raw.project_urls[LastOf(MatchesOf(category))].url)
         => out.value[FieldOf(category)]
              = raw.project_urls[LastOf(MatchesOf(category))].url

\* The URLs of the labels that match the category
UrlsOf(category) == {raw.project_urls[i].url : i \in MatchesOf(category)}

\* C18: the scan of project_urls matches by containment, whatever the case:
\* every label that holds a keyword of a category sets the field of that
\* category, also a label that holds keywords of more than one category.
C18_EveryMatchingLabelSets ==
    ScannedMapping =>
      \A category \in Categories :
         /\ MatchesOf(category) # {}
         /\ \A u \in UrlsOf(category) : Truthy(u)
         => out.value[FieldOf(category)] \in UrlsOf(category)

\* The label "API Docs" set documentation_url and left api_docs_url None
C18_Witness ==
    /\ ScannedMapping
    /\ raw.project_urls = ApiDocs
    /\ LabelMatches(ApiDocs[1].label, "api")
    /\ out.value.documentation_url = ApiDocs[1].url
    /\ out.value.api_docs_url = None

\* A label holds keywords of no category before this one in the order of
\* the scan: documentation, api, github
OnlyFrom(label, category) ==
    /\ LabelMatches(label, category)
    /\ category = "api" => ~LabelMatches(label, "documentation")
    /\ category = "github" =>
         ~LabelMatches(label, "documentation") /\ ~LabelMatches(label, "api")

\* Labels are matched by containment whatever their case, each for the first
\* category, in the order documentation, api, github, of which it holds a
\* keyword
C18_LabelSetsItsFirstCategory ==
    ScannedMapping =>
      \A category \in Categories :
         LET firsts == {i \in MatchesOf(category) :
                           OnlyFrom(raw.project_urls[i].label, category)}
         IN  /\ firsts # {}
             /\ \A i \in firsts : Truthy(raw.project_urls[i].url)
             => out.value[FieldOf(category)]
                  \in {raw.project_urls[i].url : i \in firsts}

\* The lookup with another value of project_urls in the registry's record
WithProjectUrls(project_urls) ==
    check_python_package(req.package_name, req.version,
                         [raw EXCEPT !.project_urls = project_urls])

\* The homepage the lookup resolves: home_page, else project_url, else the
\* URL of the project on PyPI
ResolvedHomepage ==
    IF Given(raw.home_page) THEN raw.home_page
    ELSE IF Given(raw.project_url) THEN raw.project_url
    ELSE <<"https://pypi.org/project/">> \o req.package_name \o <<"/">>

\* The record holds no project_urls: the key is absent or its value is null
LacksProjectUrls ==
    /\ raw.registry = "pypi"
    /\ raw.transport = "ok" /\ raw.has_info
    /\ raw.project_urls \in {Missing, None}

\* C19: without a label of the documentation category, documentation_url is
\* the value of the key Documentation, else of the key Homepage, else the
\* resolved homepage; a record without project_urls, absent or null, makes
\* no error and gives documentation_url equal to the homepage.
C19_DocumentationFallback ==
    /\ ScannedMapping /\ MatchesOf("documentation") = {}
         => out.value.documentation_url
              = IF Truthy(DictGet(raw.project_urls, KeyDocumentation))
                  THEN DictGet(raw.project_urls, KeyDocumentation)
                ELSE IF Truthy(DictGet(raw.project_urls, KeyHomepage))
                  THEN DictGet(raw.project_urls, KeyHomepage)
                ELSE out.value.homepage
    /\ out.op = "check_python_package" /\ LacksProjectUrls
         => /\ out.kind = WithProjectUrls(<<>>).kind
            /\ out.kind = "return" => out.value.documentation_url = out.value.homepage

\* A record whose project_urls is null ended the lookup in an error that the
\* same record with an empty mapping does not make
C19_Witness ==
    /\ out.op = "check_python_package"
    /\ LacksProjectUrls
    /\ raw.project_urls = None
    /\ out.kind = "raise"
    /\ WithProjectUrls(<<>>).kind = "return"

\* A record without the key project_urls gives documentation_url equal to
\* the homepage
C19_AbsentProjectUrlsGivesHomepage ==
    /\ out.op = "check_python_package" /\ LacksProjectUrls /\ raw.project_urls = Missing
         => /\ out.kind = WithProjectUrls(<<>>).kind
            /\ out.kind = "return" => out.value.documentation_url = out.value.homepage

\* The lookup with another value of home_page in the registry's record
WithHomePage(home_page) ==
    check_python_package(req.package_name, req.version,
                         [raw EXCEPT !.home_page = home_page])

\* Neither home_page nor project_url gives a URL
NoHomepageGiven ==
    /\ raw.registry = "pypi"
    /\ raw.transport = "ok" /\ raw.has_info
    /\ ~Given(raw.home_page)
    /\ ~Given(raw.project_url)

\* C20: homepage is info.home_page if that is not empty, else
\* info.project_url if that is not empty, else
\* https://pypi.org/project/{name}/; with both empty or missing the lookup
\* succeeds as it would with a home_page, and homepage is the constructed URL.
C20_HomepageFallback ==
    /\ ReturnedPypiInfo => out.value.homepage = ResolvedHomepage
    /\ out.op = "check_python_package" /\ NoHomepageGiven
         => out.kind = WithHomePage(<<"https://example.com">>).kind

\* A record without the key home_page ended the lookup in an error that the
\* same record with a home_page does not make
C20_Witness ==
    /\ out.op = "check_python_package"
    /\ NoHomepageGiven
    /\ raw.home_page = Missing
    /\ out.kind = "raise"
    /\ WithHomePage(<<"https://example.com">>).kind = "return"

\* With the keys home_page and project_url in the record, empty or not, the
\* lookup ends as it would with a home_page and homepage follows the chain
C20_EmptyHomepageFallsBack ==
    /\ ReturnedPypiInfo => out.value.homepage = ResolvedHomepage
    /\ (out.op = "check_python_package" /\ NoHomepageGiven
          /\ raw.home_page # Missing /\ raw.project_url # Missing)
         => /\ out.kind = WithHomePage(<<"https://example.com">>).kind
            /\ out.kind = "return"
                 => out.value.homepage
                      = <<"https://pypi.org/project/">> \o req.package_name \o <<"/">>

(***************************************************************************)
(* Properties of the URLs of an npm lookup (checked under SpecLookup).     *)
(***************************************************************************)
\* A lookup of npm returned its PackageInfo
ReturnedNpmInfo ==
    /\ out.kind = "return"
    /\ out.op = "check_npm_package"

\* The URL without a leading "git+" and without a trailing ".git"
StripEnds(url) ==
    LET from == IF url # <<>> /\ url[1] = "git+" THEN 2 ELSE 1
        to == IF Len(url) >= from /\ url[Len(url)] = ".git" THEN Len(url) - 1
              ELSE Len(url)
    IN  SubSeq(url, from, to)

\* api_docs_url is made from github_url when that is known, else it is None
ApiDocsFromGithub ==
    out.value.api_docs_url
      = IF out.value.github_url # None
        THEN out.value.github_url \o <<"/blob/main/API.md">>
        ELSE None

NotGitAffix(t) == t \notin {"git+", ".git"}

\* C21: for an npm record, github_url is repository.url with only a leading
\* "git+" and a trailing ".git" removed, the rest of the URL unchanged;
\* api_docs_url is "{github_url}/blob/main/API.md" exactly when github_url is
\* known, and None otherwise.
C21_GithubUrlStripsEnds ==
    ReturnedNpmInfo =>
      /\ out.value.github_url # None
           => out.value.github_url = StripEnds(raw.repository_url)
      /\ ApiDocsFromGithub

\* The repository git+https://github.com/u/pkg.github.io.git gave a
\* github_url that lost the ".git" inside the name too
C21_Witness ==
    /\ ReturnedNpmInfo
    /\ raw.repository_url = PagesRepository
    /\ out.value.github_url = <<"https://", "github.com", "/u/pkg", "hub.io">>
    /\ StripEnds(raw.repository_url)
         = <<"https://", "github.com", "/u/pkg", ".git", "hub.io">>

\* Every "git+" and every ".git" of the URL is removed, wherever it stands,
\* and api_docs_url follows github_url
C21_GithubUrlRemovesEveryOccurrence ==
    ReturnedNpmInfo =>
      /\ out.value.github_url # None
           => /\ \A i \in 1..Len(out.value.github_url) :
                    out.value.github_url[i] \notin {"git+", ".git"}
              /\ out.value.github_url
                   = SelectSeq(raw.repository_url, NotGitAffix)
      /\ ApiDocsFromGithub

(***************************************************************************)
(* Properties of the records the front ends serialize (checked under       *)
(* SpecLookup).                                                            *)
(***************************************************************************)
PackageInfoFields ==
    {"name", "current_version", "latest_version", "is_outdated", "homepage",
     "description", "release_date", "security_issues", "documentation_url",
     "api_docs_url", "mypy_stub_url", "github_url"}

ServerOps == {"server.check_python_package", "server.check_npm_package"}

\* A tool of server.py, which the command line's check also calls, returned
\* the record of a package it found
ReturnedServerRecord ==
    /\ out.kind = "return"
    /\ out.op \in ServerOps
    /\ out.value.success

\* C22: every package record a front end serializes, the result of the HTTP
\* call_tool, of the MCP tools of server.py and of the command line's
\* check --json, is an object with the twelve fields of PackageInfo, absent
\* values being null.
C22_RecordsHaveTheFieldsOfPackageInfo ==
    ReturnedPackageInfo \/ ReturnedServerRecord
      => DOMAIN out.value = PackageInfoFields

\* The tool check_python_package of server.py returned the record of a
\* package with upload_time and without release_date and security_issues
C22_Witness ==
    /\ ReturnedServerRecord
    /\ out.op = "server.check_python_package"
    /\ "upload_time" \in DOMAIN out.value
    /\ {"release_date", "security_issues", "github_url"} \cap DOMAIN out.value = {}

\* The records of DependencyChecker, which the HTTP call_tool serializes,
\* have the twelve fields, and the optional ones are strings or None
C22_CheckerRecordsHaveTheFields ==
    ReturnedPackageInfo =>
      /\ DOMAIN out.value = PackageInfoFields
      /\ \A field \in OptionalFields \cup {"mypy_stub_url"} : out.value[field] # Missing

(***************************************************************************)
(* Properties of the history store (checked under SpecHistory).            *)
(***************************************************************************)
\* The ids of the rows of queries
QueryIds == {queries[i].id : i \in DOMAIN queries}

\* The datetime t is strictly earlier than d
Earlier(t, d) == t[1] < d[1] \/ (t[1] = d[1] /\ t[2] < d[2])

\* The step is a call of clear_history
Cleared == entry' # entry /\ entry'.kind = "cleared"

\* The ids of the queries a call of clear_history(older_than) is to delete:
\* those stamped strictly before older_than, and all of them without it
ToDelete(older_than) ==
    IF older_than = None THEN QueryIds
    ELSE {queries[i].id : i \in
            {j \in DOMAIN queries :
               Earlier(fromisoformat(queries[j].timestamp), older_than)}}

\* What a call of clear_history leaves, given the ids it deletes: the other
\* queries and their responses, untouched and in their order, and the number
\* of queries deleted as the value
Leaves(old) ==
    /\ queries' = RowsFrom(queries, QueryIds \ old)
    /\ responses'
         = RowsFrom(responses,
                    {responses[i].id : i \in
                       {j \in DOMAIN responses : responses[j].query_id \notin old}})
    /\ entry'.value = Cardinality(old)

\* C23: clear_history(older_than = d) deletes exactly the queries whose
\* stored timestamp is strictly earlier than d, with their responses, leaves
\* every query stamped at or after d (later on the same day too) and its
\* response untouched, and returns the number of queries deleted; without an
\* argument it deletes everything.
C23_ClearDeletesStrictlyEarlier ==
    [][Cleared => Leaves(ToDelete(entry'.older_than))]_vars

\* Every query ever saved was deleted by one call of clear_history(d), one
\* of them stamped at or after d
C23_Witness ==
    /\ entry.kind = "cleared"
    /\ entry.older_than # None
    /\ entry.value = Len(saved)
    /\ queries = <<>>
    /\ \E k \in DOMAIN saved : ~Earlier(saved[k].at, entry.older_than)

\* The ids of the queries stamped on a day before that of older_than or on
\* its day, at any hour
ThroughTheDay(older_than) ==
    IF older_than = None THEN QueryIds
    ELSE {queries[i].id : i \in
            {j \in DOMAIN queries :
               fromisoformat(queries[j].timestamp)[1] <= older_than[1]}}

\* clear_history(d) deletes the queries stamped up to the end of the day of
\* d, with their responses, and returns their number
C23_ClearDeletesThroughTheDay ==
    [][Cleared => Leaves(ThroughTheDay(entry'.older_than))]_vars

\* C29: after any calls of save_query and clear_history every response row
\* refers to a query row that exists, each query has at most one response
\* row, and the ids save_query returned are distinct and strictly
\* increasing.
C29_ReferentialIntegrity ==
    /\ \A i \in DOMAIN responses : responses[i].query_id \in QueryIds
    /\ \A i, j \in DOMAIN responses :
          responses[i].query_id = responses[j].query_id => i = j
    /\ \A i, j \in DOMAIN queries : queries[i].id = queries[j].id => i = j
    /\ \A k, l \in DOMAIN saved : k < l => saved[k].id < saved[l].id

\* A query was saved with its response after a call of clear_history had
\* deleted an earlier query and its response
C29_Witness ==
    /\ Len(saved) >= 2
    /\ Len(queries) = 1
    /\ Len(responses) = 1
    /\ queries[1].id = saved[Len(saved)].id
    /\ responses[1].query_id = queries[1].id
    /\ saved[1].given.response # None

\* The last call was get_entry_by_id
Got == entry.kind = "got"

\* The calls of save_query that returned the id asked for
SavedAs(entry_id) == {k \in DOMAIN saved : saved[k].id = entry_id}

\* The entry holds what the call gave
ReadsBack(value, given) ==
    /\ value # NoEntry
    /\ value.query = given.query
    /\ value.query_type = given.query_type
    /\ value.response = given.response
    /\ value.success = given.success
    /\ value.error_message = given.error_message

\* C30: get_entry_by_id(id) of an id save_query returned gives the entry
\* with the query, query_type, response, success and error_message saved,
\* success False included when neither response nor message was given; an
\* id never returned, or cleared, gives None.
C30_RoundTrip ==
    Got =>
      IF entry.entry_id \in QueryIds /\ SavedAs(entry.entry_id) # {}
      THEN \A k \in SavedAs(entry.entry_id) : ReadsBack(entry.value, saved[k].given)
      ELSE entry.value = NoEntry

\* A query saved with success False and neither response nor message was
\* read back with success True
C30_Witness ==
    /\ Got
    /\ entry.entry_id \in QueryIds
    /\ \E k \in SavedAs(entry.entry_id) :
          /\ saved[k].given = Saving(None, FALSE, None, None)
          /\ entry.value # NoEntry
          /\ entry.value.success = TRUE

\* The entry holds what the call gave, and success when a row of responses
\* was written; without that row success is read as True
C30_RoundTripOfAnsweredQueries ==
    Got =>
      IF entry.entry_id \in QueryIds /\ SavedAs(entry.entry_id) # {}
      THEN \A k \in SavedAs(entry.entry_id) :
              LET given == saved[k].given
                  answered == given.response # None \/ given.error_message # None
              IN  ReadsBack(entry.value,
                            [given EXCEPT !.success = IF answered THEN @ ELSE TRUE])
      ELSE entry.value = NoEntry

(***************************************************************************)
(* The comparator as an order (checked under SpecOrder).                   *)
(***************************************************************************)
\* The call returned True: the first version is outdated relative to the
\* second
Outdated(r) == r.kind = "return" /\ r.val

\* C24: _compare_versions is transitive over all version strings, and with
\* irreflexivity a strict partial order: no two versions are each outdated
\* relative to the other, whether padded, suffixed or not numeric.
C24_StrictPartialOrder ==
    verdict.kind = "compared" =>
      /\ Outdated(verdict.ab) /\ Outdated(verdict.bc) => Outdated(verdict.ac)
      /\ ~(Outdated(verdict.ab) /\ Outdated(verdict.ba))
      /\ ~Outdated(verdict.aa)
      /\ \A r \in {verdict.ab, verdict.bc, verdict.ac, verdict.ba, verdict.aa} :
            r.kind = "return"

\* A suffixed version is outdated relative to its release, the release
\* relative to the next one, and the suffixed version to the next one
C24_Witness ==
    /\ verdict.kind = "compared"
    /\ chain = <<<<"0", "a">>, <<"0">>, <<"1">>>>
    /\ Outdated(verdict.ab) /\ Outdated(verdict.bc) /\ Outdated(verdict.ac)

(***************************************************************************)
(* Properties of the job queue (checked under SpecQueue, and C27 under     *)
(* SpecQueueLive).                                                         *)
(***************************************************************************)
JobStatuses == {"queued", "processing", "completed", "failed"}

\* The place of a status on the way queued, processing, completed or failed
StatusRank(status) ==
    CASE status = "queued" -> 0
      [] status = "processing" -> 1
      [] status \in {"completed", "failed"} -> 2

\* Every job of the table stays in it, its status goes forward or stays,
\* and completed and failed stay
StatusGoesForward ==
    \A job_id \in DOMAIN jobs :
       /\ job_id \in DOMAIN jobs'
       /\ StatusRank(jobs[job_id].status) <= StatusRank(jobs'[job_id].status)
       /\ jobs[job_id].status \in {"completed", "failed"}
            => jobs'[job_id].status = jobs[job_id].status

\* A poll is answered 404 only when the table does not hold the id
NotFoundOnlyIfAbsent ==
    polled' # polled /\ polled'.kind = "HTTPException"
      => polled'.job_id \notin DOMAIN jobs

\* C25: the status of a batch job is always queued, processing, completed or
\* failed, only moves from queued to processing and from there to completed
\* or failed, never backwards, completed and failed are final, and a job is
\* never removed from the table: get_job_status answers 404 only for ids
\* that were never created.
C25_StatusOnlyGoesForward ==
    /\ [](\A job_id \in DOMAIN jobs : jobs[job_id].status \in JobStatuses)
    /\ [][StatusGoesForward /\ NotFoundOnlyIfAbsent]_vars

\* A job a poller saw processing is completed
C25_Witness ==
    /\ polled.kind = "job"
    /\ polled.body.status = "processing"
    /\ jobs[polled.job_id].status = "completed"

\* s is the beginning of t
IsPrefix(s, t) == Len(s) <= Len(t) /\ s = SubSeq(t, 1, Len(s))

\* The numbers of a job agree: progress counts results that are there, and
\* there are no more results than dependencies
ProgressWithinResults(j) ==
    /\ 0 <= j.progress
    /\ j.progress <= Len(j.results)
    /\ Len(j.results) <= j.total
    /\ j.total = Len(j.dependencies)

\* The results of a completed job: one entry for each dependency, in the
\* order of the request
OnePerDependency(j) ==
    /\ Len(j.results) = Len(j.dependencies)
    /\ \A k \in DOMAIN j.results : j.results[k].name = j.dependencies[k]

\* From a state to the next progress does not decrease and results only
\* grows at its end
ResultsOnlyGrow ==
    \A job_id \in DOMAIN jobs :
       /\ jobs[job_id].progress <= jobs'[job_id].progress
       /\ IsPrefix(jobs[job_id].results, jobs'[job_id].results)

\* C26: in every state a poller can observe of a batch job,
\* 0 <= progress <= len(results) <= total, progress never decreases and
\* results only grows by appending; once the status is completed, results
\* holds one entry for each requested dependency, in request order, failed
\* lookups as error entries.
C26_ProgressAndResults ==
    /\ [](\A job_id \in DOMAIN jobs :
            /\ ProgressWithinResults(jobs[job_id])
            /\ jobs[job_id].status = "completed" => OnePerDependency(jobs[job_id]))
    /\ [][ResultsOnlyGrow]_vars

\* A completed job of two dependencies whose first lookup raised and whose
\* second returned: two entries, the first an error entry
C26_Witness ==
    \E job_id \in DOMAIN jobs :
       /\ jobs[job_id].status = "completed"
       /\ jobs[job_id].total = 2
       /\ jobs[job_id].results[1] = ErrorDict(jobs[job_id].dependencies[1], <<"ConnectError">>)
       /\ jobs[job_id].results[2].success
       /\ jobs[job_id].progress = 2

\* The job is in the table and is completed or failed
Finished(job_id) ==
    /\ job_id \in DOMAIN jobs
    /\ jobs[job_id].status \in {"completed", "failed"}

\* C27: every job POST /queue accepted is completed or failed in the end,
\* when its background task is run and each lookup returns or raises; a
\* lookup that fails cannot leave the job queued or processing for ever.
C27_EveryJobFinishes ==
    \A job_id \in 1..MaxJobs : (job_id \in DOMAIN jobs) ~> Finished(job_id)

\* A job whose only lookup raised is completed
C27_Witness ==
    \E job_id \in DOMAIN jobs :
       /\ jobs[job_id].status = "completed"
       /\ jobs[job_id].total = 1
       /\ jobs[job_id].progress = 0
       /\ jobs[job_id].results = <<ErrorDict(jobs[job_id].dependencies[1], <<"ConnectError">>)>>

(***************************************************************************)
(* Properties of the SSE stream (checked under SpecStream).                *)
(***************************************************************************)
\* The k-th event is the one the stream owes at that place: the start event
\* with the number of dependencies, then for each index in turn one result
\* or error event of that index and its package, then the complete event
EventInPlace(k) ==
    LET n == Len(stream.dependencies)
    IN  CASE k = 1 -> events[k] = StartEvent(n)
          [] k > 1 /\ k <= n + 1 ->
               /\ events[k].event \in {"result", "error"}
               /\ events[k].index = k - 2
               /\ events[k].package = stream.dependencies[k - 1]
          [] k = n + 2 -> events[k] = CompleteEvent
          [] OTHER -> FALSE

\* C28: for an /analyze request of n dependencies, without a failure of the
\* stream itself, the stream emits one start event first, with total = n,
\* then for each index 0..n-1 in increasing order one event of that index,
\* a result or an error, then one complete event; nothing follows it.
C28_StreamOrder ==
    /\ [](stream.kind = "stream" =>
            /\ \A k \in DOMAIN events : EventInPlace(k)
            /\ stream.pc = "done" => Len(events) = Len(stream.dependencies) + 2)
    /\ [][IsPrefix(events, events') /\ Len(events') <= Len(events) + 1]_vars

\* The stream of two dependencies whose first lookup raised is over: start,
\* error 0, result 1, complete
C28_Witness ==
    /\ Streaming("done")
    /\ Len(events) = 4
    /\ events[1] = StartEvent(2)
    /\ events[2] = ErrorEvent(0, stream.dependencies[1], <<"ConnectError">>)
    /\ events[3].event = "result" /\ events[3].index = 1
    /\ events[4] = CompleteEvent

====
